---- MODULE Spec2Model ----
(***************************************************************************)
(* State-machine model of the wealth_tracker backend:                      *)
(*   - PriceManager.get_price with its single-flight map (price/manager.py)*)
(*     on top of the two-tier quote cache (price/cache.py, redis_client.py)*)
(*   - TransactionService: create / update / delete / recalculate_position *)
(*     and snapshot invalidation (services/transaction_service.py)         *)
(*   - PortfolioService.save_net_worth_snapshot (portfolio_service.py)     *)
(***************************************************************************)
EXTENDS Integers, Sequences, FiniteSets, TLC

(***************************************************************************)
(* Part 1.  Quote cache and PriceManager.get_price                         *)
(***************************************************************************)

\* Number of concurrent request tasks that call get_price on one PriceManager.
MaxCallers == 2

Callers == 1..MaxCallers

\* "no caller": the value of a dict lookup that finds nothing.
NoCaller == 0

\* Python None, as a record so that it compares with every other value.
None == [none |-> TRUE]

\* Symbols a request may pass.  Both spellings share one cache key (the
\* cache key upper-cases the symbol) but have distinct flight keys.
PMSymbols == {"BTC", "btc"}

\* category_slug values a request may pass: one with a network provider,
\* one static class, one without any provider.
PMCategories == {"crypto", "fiat", "bond"}

\* CATEGORY_PROVIDER_MAP.get(category_slug, "")
CATEGORY_PROVIDER_MAP(category_slug) ==
  IF category_slug \in {"crypto", "us_stock", "tw_stock", "fiat", "liability"}
  THEN category_slug ELSE ""

\* self._providers: the provider names that own a provider object.
Providers == {"crypto", "us_stock", "tw_stock"}

\* str.upper() on the symbols of the model.
Upper(symbol) == IF symbol = "btc" THEN "BTC" ELSE symbol

\* _make_key(provider, symbol)
MakeKey(provider, symbol) == <<"price", provider, Upper(symbol)>>

\* flight_key = f"{provider_name}:{symbol}"
FlightKey(provider, symbol) == <<provider, symbol>>

CacheKeys == {MakeKey(p, s) : p \in {"crypto"}, s \in PMSymbols}
FlightKeys == {FlightKey(p, s) : p \in {"crypto"}, s \in PMSymbols}

\* PriceData values the provider may return.  change_24h is a set: {} is
\* None, {x} is Decimal(x).
ProviderQuotes(symbol) ==
  { [symbol |-> symbol, price |-> 1, change_24h |-> {0}, source |-> "coingecko"],
    [symbol |-> symbol, price |-> 2, change_24h |-> {5}, source |-> "coingecko"] }

\* Exceptions get_current_price may raise.
ProviderErrors == { [error |-> "PriceNotFoundError"], [error |-> "ProviderError"] }

InvalidStateError == [error |-> "InvalidStateError"]
CancelledError == [error |-> "CancelledError"]

\* _price_to_dict: a falsy change_24h (None or Decimal 0) is stored as None.
PriceToDict(price) ==
  [symbol |-> price.symbol, price |-> price.price,
   change_24h |-> IF price.change_24h \subseteq {0} THEN {} ELSE price.change_24h,
   source |-> price.source]

\* _dict_to_price
DictToPrice(data) ==
  [symbol |-> data.symbol, price |-> data.price,
   change_24h |-> data.change_24h, source |-> data.source]

\* The quote get_price returns for fiat and liability.
StaticQuote(symbol) ==
  [symbol |-> symbol, price |-> 1, change_24h |-> {}, source |-> "static"]

VARIABLES
  use_redis,   \* settings.redis_url is set and Redis answers
  fresh,       \* cache key -> None or [value, live]: the TTL tier
  stale,       \* cache key -> None or [value, live]: the 24 h tier
  fetching,    \* PriceManager._fetching: flight key -> owner of the Future
  future,      \* owner -> state of the asyncio.Future it created
  pc,          \* caller -> where its get_price coroutine is suspended
  args,        \* caller -> (symbol, category_slug, force_refresh)
  cached,      \* caller -> what its cache read returned
  price,       \* caller -> the PriceData its provider call returned
  awaited,     \* caller -> owner of the Future it awaits
  outcome,     \* caller -> what get_price returned or raised
  overlap      \* history: pairs of calls for one flight key that overlapped

pmVars == <<use_redis, fresh, stale, fetching, future, pc, args, cached, price,
            awaited, outcome, overlap>>

NoArgs == [symbol |-> "", category_slug |-> "", force_refresh |-> FALSE]

ProviderName(c) == CATEGORY_PROVIDER_MAP(args[c].category_slug)
KeyOf(c) == MakeKey(ProviderName(c), args[c].symbol)
FlightKeyOf(c) == FlightKey(ProviderName(c), args[c].symbol)

PMInit ==
  /\ fresh = [k \in CacheKeys |-> None]
  /\ stale = [k \in CacheKeys |-> None]
  /\ fetching = [k \in FlightKeys |-> NoCaller]
  /\ future = [c \in Callers |-> [st |-> "none"]]
  /\ pc = [c \in Callers |-> "idle"]
  /\ args = [c \in Callers |-> NoArgs]
  /\ cached = [c \in Callers |-> None]
  /\ price = [c \in Callers |-> None]
  /\ awaited = [c \in Callers |-> NoCaller]
  /\ outcome = [c \in Callers |-> [st |-> "none"]]
  /\ overlap = {}

\* cache_get with the expiry test left out.
CacheGetIgnoringExpiry(key) ==
  IF fresh[key] # None THEN fresh[key].value ELSE None

\* cache_get(key): the value while its TTL has not elapsed, else None.
CacheGet(key) ==
  IF fresh[key] # None /\ fresh[key].live THEN fresh[key].value ELSE None

\* get_cached_price(provider, symbol)
GetCachedPrice(provider, symbol) ==
  LET data == CacheGet(MakeKey(provider, symbol))
  IN IF data # None THEN DictToPrice(data) ELSE None

\* The coroutine is suspended between registering and its finally block.
Fetching(c) == pc[c] \in {"provider", "cache_set", "cache_set_stale"}

\* The call has started and not ended.
Active(c) == pc[c] \notin {"idle", "done"}

\* finally: self._fetching.pop(flight_key, None)
FinallyPop(flight_key) == [fetching EXCEPT ![flight_key] = NoCaller]

\* future.set_result(price) inside the try block.  On a Future that is no
\* longer pending set_result raises InvalidStateError, the except branch
\* catches it, and its future.set_exception(e) raises InvalidStateError out
\* of get_price.
SetResult(c, quote) ==
  IF future[c].st = "pending"
  THEN /\ future' = [future EXCEPT ![c] = [st |-> "result", val |-> quote]]
       /\ outcome' = [outcome EXCEPT ![c] = [st |-> "result", val |-> quote]]
  ELSE /\ future' = future
       /\ outcome' = [outcome EXCEPT ![c] = [st |-> "exception", val |-> InvalidStateError]]

\* except Exception as e: future.set_exception(e); raise e
SetException(c, e) ==
  IF future[c].st = "pending"
  THEN /\ future' = [future EXCEPT ![c] = [st |-> "exception", val |-> e]]
       /\ outcome' = [outcome EXCEPT ![c] = [st |-> "exception", val |-> e]]
  ELSE /\ future' = future
       /\ outcome' = [outcome EXCEPT ![c] = [st |-> "exception", val |-> InvalidStateError]]

\* What awaiting a Future that is done gives the awaiting coroutine.
FutureOutcome(f) ==
  IF f.st = "cancelled" THEN [st |-> "cancelled", val |-> CancelledError]
  ELSE [st |-> f.st, val |-> f.val]

\* cache_set(key, value, ttl): both tiers written (in-process store, or the
\* two Redis SETs taken together).
CacheSetFreshTier(key, value) == [fresh EXCEPT ![key] = [value |-> value, live |-> TRUE]]
CacheSetStaleTier(key, value) == [stale EXCEPT ![key] = [value |-> value, live |-> TRUE]]

\* manager.py 92-100: the in-flight check and the registration, which run
\* without a suspension point between them.  `a` is the call's arguments.
FlightCheck(c, a) ==
  LET fk == FlightKey(CATEGORY_PROVIDER_MAP(a.category_slug), a.symbol)
      owner == fetching[fk]
  IN IF owner # NoCaller
     THEN \* return await self._fetching[flight_key]
          IF future[owner].st = "pending"
          THEN /\ pc' = [pc EXCEPT ![c] = "waiting"]
               /\ awaited' = [awaited EXCEPT ![c] = owner]
               /\ UNCHANGED <<fetching, future, outcome>>
          ELSE /\ pc' = [pc EXCEPT ![c] = "done"]
               /\ awaited' = [awaited EXCEPT ![c] = owner]
               /\ outcome' = [outcome EXCEPT ![c] = FutureOutcome(future[owner])]
               /\ UNCHANGED <<fetching, future>>
     ELSE \* future = asyncio.Future(); self._fetching[flight_key] = future
          /\ future' = [future EXCEPT ![c] = [st |-> "pending"]]
          /\ fetching' = [fetching EXCEPT ![fk] = c]
          /\ pc' = [pc EXCEPT ![c] = "provider"]
          /\ UNCHANGED <<awaited, outcome>>

\* The calls for the same flight key that are in progress when c starts.
OverlapAtStart(c, a) ==
  LET fk == FlightKey(CATEGORY_PROVIDER_MAP(a.category_slug), a.symbol)
      others == {d \in Callers \ {c} : Active(d) /\ FlightKeyOf(d) = fk}
  IN overlap \cup {<<c, d>> : d \in others} \cup {<<d, c>> : d \in others}

\* A get_price whose forced refresh goes to the provider without looking
\* for a fetch in flight.
GetPriceStartForcedFetches(c, symbol, category_slug, force_refresh) ==
  LET a == [symbol |-> symbol, category_slug |-> category_slug,
            force_refresh |-> force_refresh]
      provider_name == CATEGORY_PROVIDER_MAP(category_slug)
  IN
  /\ pc[c] = "idle"
  /\ args' = [args EXCEPT ![c] = a]
  /\ UNCHANGED <<use_redis, fresh, stale, price>>
  /\ IF category_slug \in {"fiat", "liability"}
     THEN /\ pc' = [pc EXCEPT ![c] = "done"]
          /\ outcome' = [outcome EXCEPT ![c] = [st |-> "result", val |-> StaticQuote(symbol)]]
          /\ UNCHANGED <<fetching, future, cached, awaited, overlap>>
     ELSE IF provider_name \notin Providers
     THEN /\ pc' = [pc EXCEPT ![c] = "done"]
          /\ outcome' = [outcome EXCEPT ![c] =
                           [st |-> "exception", val |-> [error |-> "PriceNotFoundError"]]]
          /\ UNCHANGED <<fetching, future, cached, awaited, overlap>>
     ELSE IF force_refresh
     THEN /\ future' = [future EXCEPT ![c] = [st |-> "pending"]]
          /\ fetching' = [fetching EXCEPT ![FlightKey(provider_name, symbol)] = c]
          /\ pc' = [pc EXCEPT ![c] = "provider"]
          /\ overlap' = OverlapAtStart(c, a)
          /\ UNCHANGED <<cached, awaited, outcome>>
     ELSE IF use_redis
     THEN \* await redis.get(key): the coroutine is suspended; the reply
          \* carries what the store held when it served the read.
          /\ cached' = [cached EXCEPT ![c] = GetCachedPrice(provider_name, symbol)]
          /\ pc' = [pc EXCEPT ![c] = "cache_get"]
          /\ overlap' = OverlapAtStart(c, a)
          /\ UNCHANGED <<fetching, future, awaited, outcome>>
     ELSE \* in-process store: no suspension point before the in-flight check
          LET hit == GetCachedPrice(provider_name, symbol)
          IN /\ cached' = [cached EXCEPT ![c] = hit]
             /\ IF hit # None
                THEN /\ pc' = [pc EXCEPT ![c] = "done"]
                     /\ outcome' = [outcome EXCEPT ![c] = [st |-> "result", val |-> hit]]
                     /\ UNCHANGED <<fetching, future, awaited, overlap>>
                ELSE /\ FlightCheck(c, a)
                     /\ overlap' = OverlapAtStart(c, a)

\* get_price(symbol, category_slug, force_refresh), from its entry to its
\* first suspension point (manager.py 69-100).
GetPriceStart(c, symbol, category_slug, force_refresh) ==
  LET a == [symbol |-> symbol, category_slug |-> category_slug,
            force_refresh |-> force_refresh]
      provider_name == CATEGORY_PROVIDER_MAP(category_slug)
  IN
  /\ pc[c] = "idle"
  /\ args' = [args EXCEPT ![c] = a]
  /\ UNCHANGED <<use_redis, fresh, stale, price>>
  /\ IF category_slug \in {"fiat", "liability"}
     THEN /\ pc' = [pc EXCEPT ![c] = "done"]
          /\ outcome' = [outcome EXCEPT ![c] = [st |-> "result", val |-> StaticQuote(symbol)]]
          /\ UNCHANGED <<fetching, future, cached, awaited, overlap>>
     ELSE IF provider_name \notin Providers
     THEN /\ pc' = [pc EXCEPT ![c] = "done"]
          /\ outcome' = [outcome EXCEPT ![c] =
                           [st |-> "exception", val |-> [error |-> "PriceNotFoundError"]]]
          /\ UNCHANGED <<fetching, future, cached, awaited, overlap>>
     ELSE IF force_refresh
     THEN /\ FlightCheck(c, a)
          /\ overlap' = OverlapAtStart(c, a)
          /\ UNCHANGED cached
     ELSE IF use_redis
     THEN \* await redis.get(key): the coroutine is suspended; the reply
          \* carries what the store held when it served the read.
          /\ cached' = [cached EXCEPT ![c] = GetCachedPrice(provider_name, symbol)]
          /\ pc' = [pc EXCEPT ![c] = "cache_get"]
          /\ overlap' = OverlapAtStart(c, a)
          /\ UNCHANGED <<fetching, future, awaited, outcome>>
     ELSE \* in-process store: no suspension point before the in-flight check
          LET hit == GetCachedPrice(provider_name, symbol)
          IN /\ cached' = [cached EXCEPT ![c] = hit]
             /\ IF hit # None
                THEN /\ pc' = [pc EXCEPT ![c] = "done"]
                     /\ outcome' = [outcome EXCEPT ![c] = [st |-> "result", val |-> hit]]
                     /\ UNCHANGED <<fetching, future, awaited, overlap>>
                ELSE /\ FlightCheck(c, a)
                     /\ overlap' = OverlapAtStart(c, a)

\* get_price on a PriceManager that was constructed for this request
\* (api/portfolio.py 32, 79, 189, 320; api/exchange.py 33; worker.py 52),
\* with the in-process store.  self._fetching is the new manager's own
\* dict: it is empty at the in-flight check and holds the entry of this
\* call only, so the map shared by the callers of one manager (`fetching`)
\* is neither read nor written.
GetPriceOnNewManager(c, symbol, category_slug, force_refresh) ==
  LET a == [symbol |-> symbol, category_slug |-> category_slug,
            force_refresh |-> force_refresh]
      provider_name == CATEGORY_PROVIDER_MAP(category_slug)
      hit == GetCachedPrice(provider_name, symbol)
  IN
  /\ pc[c] = "idle"
  /\ ~use_redis
  /\ args' = [args EXCEPT ![c] = a]
  /\ UNCHANGED <<use_redis, fresh, stale, price, fetching, awaited>>
  /\ IF category_slug \in {"fiat", "liability"}
     THEN /\ pc' = [pc EXCEPT ![c] = "done"]
          /\ outcome' = [outcome EXCEPT ![c] = [st |-> "result", val |-> StaticQuote(symbol)]]
          /\ UNCHANGED <<future, cached, overlap>>
     ELSE IF provider_name \notin Providers
     THEN /\ pc' = [pc EXCEPT ![c] = "done"]
          /\ outcome' = [outcome EXCEPT ![c] =
                           [st |-> "exception", val |-> [error |-> "PriceNotFoundError"]]]
          /\ UNCHANGED <<future, cached, overlap>>
     ELSE IF ~force_refresh /\ hit # None
     THEN /\ cached' = [cached EXCEPT ![c] = hit]
          /\ pc' = [pc EXCEPT ![c] = "done"]
          /\ outcome' = [outcome EXCEPT ![c] = [st |-> "result", val |-> hit]]
          /\ UNCHANGED <<future, overlap>>
     ELSE \* future = asyncio.Future(); self._fetching[flight_key] = future
          /\ future' = [future EXCEPT ![c] = [st |-> "pending"]]
          /\ pc' = [pc EXCEPT ![c] = "provider"]
          /\ overlap' = OverlapAtStart(c, a)
          /\ UNCHANGED <<cached, outcome>>

\* A resumption that goes on to the in-flight check whatever the cache
\* replied.
CacheGetResumeRefetching(c) ==
  /\ pc[c] = "cache_get"
  /\ UNCHANGED <<use_redis, fresh, stale, args, cached, price, overlap>>
  /\ FlightCheck(c, args[c])

\* The Redis reply arrives: manager.py 89-100.
CacheGetResume(c) ==
  /\ pc[c] = "cache_get"
  /\ UNCHANGED <<use_redis, fresh, stale, args, cached, price, overlap>>
  /\ IF cached[c] # None
     THEN /\ pc' = [pc EXCEPT ![c] = "done"]
          /\ outcome' = [outcome EXCEPT ![c] = [st |-> "result", val |-> cached[c]]]
          /\ UNCHANGED <<fetching, future, awaited>>
     ELSE FlightCheck(c, args[c])

\* provider.get_current_price(symbol) returns (manager.py 105-110, 115).
ProviderReturn(c, quote) ==
  /\ pc[c] = "provider"
  /\ price' = [price EXCEPT ![c] = quote]
  /\ UNCHANGED <<use_redis, args, cached, awaited, overlap>>
  /\ IF use_redis
     THEN \* await redis.set(key, ...): suspended in set_cached_price
          /\ pc' = [pc EXCEPT ![c] = "cache_set"]
          /\ UNCHANGED <<fresh, stale, fetching, future, outcome>>
     ELSE /\ fresh' = CacheSetFreshTier(KeyOf(c), PriceToDict(quote))
          /\ stale' = CacheSetStaleTier(KeyOf(c), PriceToDict(quote))
          /\ SetResult(c, quote)
          /\ fetching' = FinallyPop(FlightKeyOf(c))
          /\ pc' = [pc EXCEPT ![c] = "done"]

\* redis.set(key, ..., ex=ttl) is served; the coroutine goes on to
\* await redis.set("stale:" + key, ...) (redis_client.py 124-126).
CacheSetFresh(c) ==
  /\ pc[c] = "cache_set"
  /\ fresh' = CacheSetFreshTier(KeyOf(c), PriceToDict(price[c]))
  /\ pc' = [pc EXCEPT ![c] = "cache_set_stale"]
  /\ UNCHANGED <<use_redis, stale, fetching, future, args, cached, price, awaited,
                 outcome, overlap>>

\* The second SET is served and get_price runs to its end
\* (redis_client.py 126-127, manager.py 109-110, 115).
CacheSetDone(c) ==
  /\ pc[c] = "cache_set_stale"
  /\ stale' = CacheSetStaleTier(KeyOf(c), PriceToDict(price[c]))
  /\ SetResult(c, price[c])
  /\ fetching' = FinallyPop(FlightKeyOf(c))
  /\ pc' = [pc EXCEPT ![c] = "done"]
  /\ UNCHANGED <<use_redis, fresh, args, cached, price, awaited, overlap>>

\* A failure path that drops the entries of the key from both tiers.
ProviderFailEvicting(c, e) ==
  /\ pc[c] = "provider"
  /\ SetException(c, e)
  /\ fetching' = FinallyPop(FlightKeyOf(c))
  /\ pc' = [pc EXCEPT ![c] = "done"]
  /\ fresh' = [fresh EXCEPT ![KeyOf(c)] = None]
  /\ stale' = [stale EXCEPT ![KeyOf(c)] = None]
  /\ UNCHANGED <<use_redis, args, cached, price, awaited, overlap>>

\* provider.get_current_price(symbol) raises (manager.py 111-115).
ProviderFail(c, e) ==
  /\ pc[c] = "provider"
  /\ SetException(c, e)
  /\ fetching' = FinallyPop(FlightKeyOf(c))
  /\ pc' = [pc EXCEPT ![c] = "done"]
  /\ UNCHANGED <<use_redis, fresh, stale, args, cached, price, awaited, overlap>>

\* A caller suspended in `await self._fetching[flight_key]` is resumed once
\* the Future is done (manager.py 97).
WaiterResume(c) ==
  /\ pc[c] = "waiting"
  /\ future[awaited[c]].st # "pending"
  /\ outcome' = [outcome EXCEPT ![c] = FutureOutcome(future[awaited[c]])]
  /\ pc' = [pc EXCEPT ![c] = "done"]
  /\ UNCHANGED <<use_redis, fresh, stale, fetching, future, args, cached, price,
                 awaited, overlap>>

\* Cancel with the deregistration placed in the except branch instead of a
\* finally block: a cancelled fetch leaves its entry in the map.
CancelWithoutFinally(c) ==
  /\ pc[c] \in {"cache_get", "provider", "cache_set", "cache_set_stale", "waiting"}
  /\ pc' = [pc EXCEPT ![c] = "done"]
  /\ outcome' = [outcome EXCEPT ![c] = [st |-> "cancelled", val |-> CancelledError]]
  /\ fetching' = fetching
  /\ future' = IF pc[c] = "waiting" /\ future[awaited[c]].st = "pending"
               THEN [future EXCEPT ![awaited[c]] = [st |-> "cancelled"]]
               ELSE future
  /\ UNCHANGED <<use_redis, fresh, stale, args, cached, price, awaited, overlap>>

\* The request task of caller c is cancelled (client disconnect) while it is
\* suspended.  CancelledError is a BaseException: `except Exception` does
\* not catch it, the finally block runs.  Cancelling a task that awaits a
\* Future cancels that Future.
Cancel(c) ==
  /\ pc[c] \in {"cache_get", "provider", "cache_set", "cache_set_stale", "waiting"}
  /\ pc' = [pc EXCEPT ![c] = "done"]
  /\ outcome' = [outcome EXCEPT ![c] = [st |-> "cancelled", val |-> CancelledError]]
  /\ fetching' = IF Fetching(c) THEN FinallyPop(FlightKeyOf(c)) ELSE fetching
  /\ future' = IF pc[c] = "waiting" /\ future[awaited[c]].st = "pending"
               THEN [future EXCEPT ![awaited[c]] = [st |-> "cancelled"]]
               ELSE future
  /\ UNCHANGED <<use_redis, fresh, stale, args, cached, price, awaited, overlap>>

\* The TTL of a fresh entry elapses.
ExpireFresh(key) ==
  /\ fresh[key] # None
  /\ fresh[key].live
  /\ fresh' = [fresh EXCEPT ![key] = [value |-> fresh[key].value, live |-> FALSE]]
  /\ UNCHANGED <<use_redis, stale, fetching, future, pc, args, cached, price,
                 awaited, outcome, overlap>>

(***************************************************************************)
(* Part 2.  Decimal arithmetic of the ledger                               *)
(*                                                                         *)
(* A Decimal with 8 places is a pair <<i, f>> that stands for              *)
(* i + f / Scale8, with i any integer and 0 <= f < Scale8.  Quantities,    *)
(* unit prices and fees of the model are whole numbers; avg_cost is such a *)
(* pair; realized_pnl (4 places) is an integer count of 1/Scale4.          *)
(***************************************************************************)

\* Decimal("0.0001"): the quantum of realized_pnl.
Scale4 == 10000

\* Decimal("0.00000001"): the quantum of avg_cost.
Scale8 == 100000000

DecFromInt(n) == <<n, 0>>

DecNeg(d) == IF d[2] = 0 THEN <<0 - d[1], 0>> ELSE <<0 - d[1] - 1, Scale8 - d[2]>>

DecAdd(a, b) ==
  LET f == a[2] + b[2]
  IN <<a[1] + b[1] + (f \div Scale8), f % Scale8>>

\* d * n, exact, for an integer n.
DecMulInt(d, n) ==
  LET lo == n * (d[2] % Scale4)
      hi == n * (d[2] \div Scale4) + (lo \div Scale4)
  IN <<n * d[1] + (hi \div Scale4), (hi % Scale4) * Scale4 + (lo % Scale4)>>

\* (d / n).quantize(Decimal("0.00000001"), rounding=ROUND_HALF_UP), n > 0:
\* long division, then ties away from zero.
DecDivRound8(d, n) ==
  LET a  == d[1] \div n
      x  == (d[1] % n) * Scale4 + (d[2] \div Scale4)
      y  == (x % n) * Scale4 + (d[2] % Scale4)
      fl == <<a, (x \div n) * Scale4 + (y \div n)>>
      r  == y % n
      up == IF a >= 0 THEN 2 * r >= n ELSE 2 * r > n
  IN IF up THEN DecAdd(fl, <<0, 1>>) ELSE fl

\* d.quantize(Decimal("0.0001"), rounding=ROUND_HALF_UP), in units of 1/Scale4.
Quantize4(d) ==
  LET r  == d[2] % Scale4
      up == IF d[1] >= 0 THEN 2 * r >= Scale4 ELSE 2 * r > Scale4
  IN d[1] * Scale4 + (d[2] \div Scale4) + (IF up THEN 1 ELSE 0)

\* The plain mean of the previous average and the new unit price: the
\* quantities do not weigh in.
UnweightedAvgCost(qty, avg_cost, quantity, unit_price) ==
  DecDivRound8(DecAdd(avg_cost, DecFromInt(unit_price)), 2)

\* ((old_total + new_total) / new_quantity).quantize(8 places), with
\* old_total = qty * avg_cost and new_total = quantity * unit_price.
WeightedAvgCost(qty, avg_cost, quantity, unit_price) ==
  DecDivRound8(DecAdd(DecMulInt(avg_cost, qty), DecFromInt(quantity * unit_price)),
               qty + quantity)

\* ((tx.unit_price - avg_cost) * tx.quantity - tx.fee).quantize(4 places)
SellRealizedPnl(tx, avg_cost) ==
  Quantize4(DecAdd(DecMulInt(DecAdd(DecFromInt(tx.unit_price), DecNeg(avg_cost)),
                             tx.quantity),
                   DecFromInt(0 - tx.fee)))

\* ((tx.unit_price * tx.quantity) - tx.fee).quantize(4 places)
DividendRealizedPnl(tx) == Quantize4(DecFromInt(tx.unit_price * tx.quantity - tx.fee))

(***************************************************************************)
(* Part 3.  TransactionService and the snapshot table                      *)
(***************************************************************************)

\* Most Transaction rows the table holds at one time.
MaxTx == 3

\* Last calendar day date.today() reaches.
MaxDay == 2

\* Instants of executed_at per calendar day: executed_at.date() maps
\* SlotsPerDay consecutive instants to one date.
SlotsPerDay == 2

\* datetime.date() of an executed_at instant (instants start at 1, days at 1).
DateOf(executed_at) == (executed_at + SlotsPerDay - 1) \div SlotsPerDay

VARIABLES
  transactions,  \* the transactions table, a sequence in insertion order
                 \* (created_at grows with the index)
  positions,     \* the current_positions table, a set of rows
  snapshots,     \* the historical_net_worth table, a set of rows
  today,         \* date.today()
  last_op        \* history: the service call that ran last

ledgerVars == <<transactions, positions, snapshots, today, last_op>>

VARIABLES
  batch,         \* the frame of the get_prices_batch call in progress
  saving         \* session -> the frame of the call it runs: save_net_worth_snapshot
                 \* or create_transaction

\* With a shared store configured, fresh and stale are the keys of the
\* shared store and the two dicts of redis_client.py are the in-process
\* copies, written when the shared store failed.
VARIABLES
  memory_cache,  \* _memory_cache: key -> entry
  stale_cache    \* _stale_cache: key -> entry

copyVars == <<memory_cache, stale_cache>>

jobVars == <<batch, saving, copyVars>>

vars == <<pmVars, ledgerVars, jobVars>>

NoOp == [op |-> "none"]

LedgerInit ==
  /\ transactions = << >>
  /\ positions = {}
  /\ snapshots = {}
  /\ today = 1
  /\ last_op = NoOp

\* Database sessions that run save_net_worth_snapshot at the same time.
MaxSavers == 2

Savers == 1..MaxSavers

\* No get_prices_batch call has been made.
NoBatch == [st |-> "idle"]

\* The session has no save_net_worth_snapshot call in progress.
NoSave == [st |-> "idle"]

JobInit ==
  /\ batch = NoBatch
  /\ saving = [s \in Savers |-> NoSave]
  /\ memory_cache = [k \in CacheKeys |-> None]
  /\ stale_cache = [k \in CacheKeys |-> None]

\* One PriceManager with no call in progress, in either cache configuration.
InitPM == use_redis \in BOOLEAN /\ PMInit /\ LedgerInit /\ JobInit

\* Empty tables; the quote layer stays idle.
InitLedger == use_redis = FALSE /\ PMInit /\ LedgerInit /\ JobInit

\* TransactionType
BuyTypes == {"buy", "deposit"}
SellTypes == {"sell", "withdraw"}

\* select(CurrentPosition).where(portfolio_id == ..).where(symbol == ..)
PositionRows(pos, portfolio_id, symbol) ==
  {r \in pos : r.portfolio_id = portfolio_id /\ r.symbol = symbol}

\* scalar_one_or_none() of that select; it raises when two rows match, so
\* the callers below are guarded by OneOrNone.
OneOrNone(rows) == Cardinality(rows) <= 1
ScalarOneOrNone(rows) == IF rows = {} THEN None ELSE CHOOSE r \in rows : TRUE

\* Indices of the rows select(Transaction).where(portfolio_id == ..)
\* .where(symbol == ..) returns.
TxIndices(txs, portfolio_id, symbol) ==
  {i \in 1..Len(txs) : txs[i].portfolio_id = portfolio_id /\ txs[i].symbol = symbol}

\* created_at (models/transaction.py 89-91) is filled by the server with
\* func.now(), the time at which the database transaction of the request
\* began.  The code only compares created_at values, so a row keeps the
\* rank of its created_at among the stored rows: equal ranks are equal
\* timestamps.  Now is the rank of a request that begins after every row of
\* txs was created.
CreatedAtNow(txs) ==
  LET stamps == {txs[i].created_at : i \in 1..Len(txs)}
  IN IF stamps = {} THEN 1 ELSE 1 + (CHOOSE m \in stamps : \A n \in stamps : n <= m)

\* The ranks of the created_at values of the rows that are stored.
Rerank(txs) ==
  [i \in 1..Len(txs) |->
     [txs[i] EXCEPT !.created_at =
        1 + Cardinality({txs[j].created_at : j \in {k \in 1..Len(txs) :
                                            txs[k].created_at < txs[i].created_at}})]]

\* .order_by(executed_at.asc(), created_at.asc()): i comes before j.
OrderedBefore(txs, i, j) ==
  \/ txs[i].executed_at < txs[j].executed_at
  \/ txs[i].executed_at = txs[j].executed_at /\ txs[i].created_at < txs[j].created_at

\* The rows of idx that no other row of idx must precede.
FirstRows(txs, idx) ==
  {i \in idx : \A j \in idx : ~OrderedBefore(txs, j, i)}

\* The result of the select when the database returns rows that tie on
\* both keys in the order of their insertion; it is the only permitted
\* order when no two rows tie.
RECURSIVE SortIndices(_, _)
SortIndices(txs, idx) ==
  IF idx = {} THEN << >>
  ELSE LET firsts == FirstRows(txs, idx)
           first  == CHOOSE i \in firsts : \A j \in firsts : i <= j
       IN <<first>> \o SortIndices(txs, idx \ {first})

\* The loop body with a sale that leaves the fee out of realized_pnl.
ReplayStepFeeIgnored(st, i, tx) ==
  IF tx.tx_type \in BuyTypes
  THEN LET qty == st.qty + tx.quantity
       IN [qty |-> qty,
           avg |-> IF qty > 0
                   THEN WeightedAvgCost(st.qty, st.avg, tx.quantity, tx.unit_price)
                   ELSE st.avg,
           pnl |-> st.pnl @@ (i :> 0)]
  ELSE IF tx.tx_type \in SellTypes
  THEN [qty |-> st.qty - tx.quantity,
        avg |-> st.avg,
        pnl |-> st.pnl @@ (i :> SellRealizedPnl([tx EXCEPT !.fee = 0], st.avg))]
  ELSE IF tx.tx_type = "dividend"
  THEN [qty |-> st.qty, avg |-> st.avg, pnl |-> st.pnl @@ (i :> DividendRealizedPnl(tx))]
  ELSE [qty |-> st.qty, avg |-> st.avg, pnl |-> st.pnl @@ (i :> tx.realized_pnl)]

\* The loop body with a dividend that is reinvested: it adds its quantity
\* to the running quantity.
ReplayStepDividendReinvested(st, i, tx) ==
  IF tx.tx_type \in BuyTypes
  THEN LET qty == st.qty + tx.quantity
       IN [qty |-> qty,
           avg |-> IF qty > 0
                   THEN WeightedAvgCost(st.qty, st.avg, tx.quantity, tx.unit_price)
                   ELSE st.avg,
           pnl |-> st.pnl @@ (i :> 0)]
  ELSE IF tx.tx_type \in SellTypes
  THEN [qty |-> st.qty - tx.quantity,
        avg |-> st.avg,
        pnl |-> st.pnl @@ (i :> SellRealizedPnl(tx, st.avg))]
  ELSE IF tx.tx_type = "dividend"
  THEN [qty |-> st.qty + tx.quantity, avg |-> st.avg,
        pnl |-> st.pnl @@ (i :> DividendRealizedPnl(tx))]
  ELSE [qty |-> st.qty, avg |-> st.avg, pnl |-> st.pnl @@ (i :> tx.realized_pnl)]

\* One pass of the loop body of recalculate_position (lines 150-171) over
\* transaction tx with running state st = [qty, avg, pnl]; pnl maps the
\* indices handled so far to the realized_pnl assigned to them.
ReplayStep(st, i, tx) ==
  IF tx.tx_type \in BuyTypes
  THEN LET qty == st.qty + tx.quantity
       IN [qty |-> qty,
           avg |-> IF qty > 0
                   THEN WeightedAvgCost(st.qty, st.avg, tx.quantity, tx.unit_price)
                   ELSE st.avg,
           pnl |-> st.pnl @@ (i :> 0)]
  ELSE IF tx.tx_type \in SellTypes
  THEN [qty |-> st.qty - tx.quantity,
        avg |-> st.avg,
        pnl |-> st.pnl @@ (i :> SellRealizedPnl(tx, st.avg))]
  ELSE IF tx.tx_type = "dividend"
  THEN [qty |-> st.qty, avg |-> st.avg, pnl |-> st.pnl @@ (i :> DividendRealizedPnl(tx))]
  ELSE [qty |-> st.qty, avg |-> st.avg, pnl |-> st.pnl @@ (i :> tx.realized_pnl)]

\* current_qty = Decimal("0"); current_avg_cost = Decimal("0")
ReplayStart == [qty |-> 0, avg |-> DecFromInt(0), pnl |-> << >>]

\* for tx in txs: ... over the sorted indices `order`.
RECURSIVE Replay(_, _, _)
Replay(st, txs, order) ==
  IF order = << >> THEN st
  ELSE Replay(ReplayStep(st, Head(order), txs[Head(order)]), txs, Tail(order))

\* A recalculation that continues from the stored position instead of
\* starting the replay at zero.
RecalculateOnTopOfPosition(db, portfolio_id, symbol) ==
  LET idx   == TxIndices(db.transactions, portfolio_id, symbol)
      rows  == PositionRows(db.positions, portfolio_id, symbol)
      start == IF rows = {} THEN ReplayStart
               ELSE LET r == CHOOSE x \in rows : TRUE
                    IN [qty |-> r.total_quantity, avg |-> r.avg_cost, pnl |-> << >>]
      final == Replay(start, db.transactions, SortIndices(db.transactions, idx))
  IN IF idx = {}
     THEN [transactions |-> db.transactions, positions |-> db.positions \ rows]
     ELSE [transactions |->
             [i \in 1..Len(db.transactions) |->
                IF i \in idx
                THEN [db.transactions[i] EXCEPT !.realized_pnl = final.pnl[i]]
                ELSE db.transactions[i]],
           positions |->
             (db.positions \ rows) \cup
               {[portfolio_id |-> portfolio_id, symbol |-> symbol,
                 total_quantity |-> final.qty, avg_cost |-> final.avg]}]

\* A recalculation that always inserts a position row and never looks for
\* the one that exists.
RecalculateInsertOnly(db, portfolio_id, symbol) ==
  LET idx   == TxIndices(db.transactions, portfolio_id, symbol)
      final == Replay(ReplayStart, db.transactions, SortIndices(db.transactions, idx))
  IN IF idx = {}
     THEN db
     ELSE [transactions |->
             [i \in 1..Len(db.transactions) |->
                IF i \in idx
                THEN [db.transactions[i] EXCEPT !.realized_pnl = final.pnl[i]]
                ELSE db.transactions[i]],
           positions |->
             db.positions \cup
               {[portfolio_id |-> portfolio_id, symbol |-> symbol,
                 total_quantity |-> final.qty, avg_cost |-> final.avg]}]

\* recalculate_position(portfolio_id, symbol) on the tables db =
\* [transactions, positions]; the result is the tables it leaves.
RecalculatePosition(db, portfolio_id, symbol) ==
  LET idx   == TxIndices(db.transactions, portfolio_id, symbol)
      rows  == PositionRows(db.positions, portfolio_id, symbol)
      final == Replay(ReplayStart, db.transactions, SortIndices(db.transactions, idx))
  IN IF idx = {}
     THEN [transactions |-> db.transactions, positions |-> db.positions \ rows]
     ELSE [transactions |->
             [i \in 1..Len(db.transactions) |->
                IF i \in idx
                THEN [db.transactions[i] EXCEPT !.realized_pnl = final.pnl[i]]
                ELSE db.transactions[i]],
           positions |->
             (db.positions \ rows) \cup
               {[portfolio_id |-> portfolio_id, symbol |-> symbol,
                 total_quantity |-> final.qty, avg_cost |-> final.avg]}]

\* An invalidation that keeps the snapshot of from_date itself.
InvalidateAfter(snaps, portfolio_id, from_date) ==
  {r \in snaps : ~(r.portfolio_id = portfolio_id /\ r.snapshot_date > from_date)}

\* An invalidation that deletes the snapshots of every portfolio from
\* from_date on.
InvalidateEveryPortfolio(snaps, portfolio_id, from_date) ==
  {r \in snaps : r.snapshot_date < from_date}

\* _invalidate_snapshots(portfolio_id, from_date): the rows that stay.
InvalidateSnapshots(snaps, portfolio_id, from_date) ==
  {r \in snaps : ~(r.portfolio_id = portfolio_id /\ r.snapshot_date >= from_date)}

\* An _update_position that never lets a sale take the quantity below zero.
UpdatePositionClamped(pos, tx) ==
  LET rows     == PositionRows(pos, tx.portfolio_id, tx.symbol)
      position == ScalarOneOrNone(rows)
      fresh_row(q) == [portfolio_id |-> tx.portfolio_id, symbol |-> tx.symbol,
                       total_quantity |-> q, avg_cost |-> DecFromInt(tx.unit_price)]
      floor0(q) == IF q < 0 THEN 0 ELSE q
  IN IF tx.tx_type \in BuyTypes
     THEN IF position # None
          THEN LET new_quantity == position.total_quantity + tx.quantity
               IN [positions |->
                     IF new_quantity > 0
                     THEN (pos \ rows) \cup
                          {[position EXCEPT
                              !.avg_cost = WeightedAvgCost(position.total_quantity,
                                             position.avg_cost, tx.quantity, tx.unit_price),
                              !.total_quantity = new_quantity]}
                     ELSE pos,
                   realized_pnl |-> 0]
          ELSE [positions |-> pos \cup {fresh_row(tx.quantity)}, realized_pnl |-> 0]
     ELSE IF tx.tx_type \in SellTypes
     THEN IF position = None
          THEN [positions |-> pos \cup {fresh_row(0)}, realized_pnl |-> 0]
          ELSE [positions |->
                  (pos \ rows) \cup
                  {[position EXCEPT
                      !.total_quantity = floor0(position.total_quantity - tx.quantity)]},
                realized_pnl |-> SellRealizedPnl(tx, position.avg_cost)]
     ELSE IF tx.tx_type = "dividend"
     THEN [positions |-> pos, realized_pnl |-> DividendRealizedPnl(tx)]
     ELSE [positions |-> pos, realized_pnl |-> 0]

\* _update_position(tx) on the positions table: the table it leaves and the
\* realized_pnl it gives tx (the column default 0 when it assigns none).
UpdatePosition(pos, tx) ==
  LET rows     == PositionRows(pos, tx.portfolio_id, tx.symbol)
      position == ScalarOneOrNone(rows)
      fresh_row(q) == [portfolio_id |-> tx.portfolio_id, symbol |-> tx.symbol,
                       total_quantity |-> q, avg_cost |-> DecFromInt(tx.unit_price)]
  IN IF tx.tx_type \in BuyTypes
     THEN IF position # None
          THEN LET new_quantity == position.total_quantity + tx.quantity
               IN [positions |->
                     IF new_quantity > 0
                     THEN (pos \ rows) \cup
                          {[position EXCEPT
                              !.avg_cost = WeightedAvgCost(position.total_quantity,
                                             position.avg_cost, tx.quantity, tx.unit_price),
                              !.total_quantity = new_quantity]}
                     ELSE pos,
                   realized_pnl |-> 0]
          ELSE [positions |-> pos \cup {fresh_row(tx.quantity)}, realized_pnl |-> 0]
     ELSE IF tx.tx_type \in SellTypes
     THEN IF position = None
          THEN [positions |-> pos \cup {fresh_row(0 - tx.quantity)}, realized_pnl |-> 0]
          ELSE [positions |->
                  (pos \ rows) \cup
                  {[position EXCEPT !.total_quantity = position.total_quantity - tx.quantity]},
                realized_pnl |-> SellRealizedPnl(tx, position.avg_cost)]
     ELSE IF tx.tx_type = "dividend"
     THEN [positions |-> pos, realized_pnl |-> DividendRealizedPnl(tx)]
     ELSE [positions |-> pos, realized_pnl |-> 0]

\* setattr(tx, key, value) for every key of update_data.
ApplyUpdate(tx, update_data) ==
  [k \in DOMAIN tx |-> IF k \in DOMAIN update_data THEN update_data[k] ELSE tx[k]]

\* The sequence txs without its i-th element: db.delete(tx).
Remove(txs, i) == SubSeq(txs, 1, i - 1) \o SubSeq(txs, i + 1, Len(txs))

\* create_transaction(data): the row is added with the realized_pnl and the
\* position that _update_position derives from the stored position, then
\* the snapshots from the execution date on are deleted.
CreateTransaction(data) ==
  LET tx  == [portfolio_id |-> data.portfolio_id, symbol |-> data.symbol,
              tx_type |-> data.tx_type, quantity |-> data.quantity,
              unit_price |-> data.unit_price, fee |-> data.fee,
              executed_at |-> data.executed_at, realized_pnl |-> 0,
              created_at |-> CreatedAtNow(transactions)]
      upd == UpdatePosition(positions, tx)
  IN
  /\ Len(transactions) < MaxTx
  /\ OneOrNone(PositionRows(positions, tx.portfolio_id, tx.symbol))
  /\ transactions' = Append(transactions, [tx EXCEPT !.realized_pnl = upd.realized_pnl])
  /\ positions' = upd.positions
  /\ snapshots' = InvalidateSnapshots(snapshots, tx.portfolio_id, DateOf(tx.executed_at))
  /\ last_op' = [op |-> "create", portfolio_id |-> tx.portfolio_id, symbol |-> tx.symbol,
                 date |-> DateOf(tx.executed_at),
                 removed |-> Cardinality(snapshots) - Cardinality(snapshots')]
  /\ UNCHANGED today

\* An update that recalculates the pair the row belonged to and not the
\* pair it has moved to.
RecalculateOldPairOnly(db, old_portfolio_id, old_symbol, tx) ==
  RecalculatePosition(db, old_portfolio_id, old_symbol)

\* The tables after line 85-87 of update_transaction: the old pair is
\* recalculated, then the new pair when the symbol changed.
RecalculateAfterUpdate(db, old_portfolio_id, old_symbol, tx) ==
  LET first == RecalculatePosition(db, old_portfolio_id, old_symbol)
  IN IF tx.symbol # old_symbol
     THEN RecalculatePosition(first, tx.portfolio_id, tx.symbol)
     ELSE first

\* Some SELL/WITHDRAW row kept by both tables carries another realized_pnl.
\* `after` is `before` without its row `gone` (0: no row was removed).
SellPnlChanged(before, after, gone) ==
  \E j \in 1..Len(after) :
     /\ after[j].tx_type \in SellTypes
     /\ after[j].realized_pnl #
          before[IF gone = 0 \/ j < gone THEN j ELSE j + 1].realized_pnl

\* An update that stores the new field values and recalculates nothing.
UpdateWithoutRecalculation(i, update_data) ==
  LET old == transactions[i]
      tx  == ApplyUpdate(old, update_data)
  IN
  /\ i \in 1..Len(transactions)
  /\ transactions' = [transactions EXCEPT ![i] = tx]
  /\ positions' = positions
  /\ snapshots' = InvalidateSnapshots(snapshots, tx.portfolio_id, DateOf(tx.executed_at))
  /\ last_op' = [op |-> "update", portfolio_id |-> tx.portfolio_id, symbol |-> tx.symbol,
                 old_symbol |-> old.symbol, date |-> DateOf(tx.executed_at),
                 old_date |-> DateOf(old.executed_at), repriced |-> FALSE, removed |-> 0]
  /\ UNCHANGED today

\* update_transaction(tx_id, data), for the row at index i.
UpdateTransaction(i, update_data) ==
  LET old == transactions[i]
      tx  == ApplyUpdate(old, update_data)
      db  == RecalculateAfterUpdate(
               [transactions |-> [transactions EXCEPT ![i] = tx], positions |-> positions],
               old.portfolio_id, old.symbol, tx)
  IN
  /\ i \in 1..Len(transactions)
  /\ OneOrNone(PositionRows(positions, old.portfolio_id, old.symbol))
  /\ OneOrNone(PositionRows(positions, tx.portfolio_id, tx.symbol))
  /\ transactions' = db.transactions
  /\ positions' = db.positions
  /\ snapshots' = InvalidateSnapshots(snapshots, tx.portfolio_id, DateOf(tx.executed_at))
  /\ last_op' = [op |-> "update", portfolio_id |-> tx.portfolio_id, symbol |-> tx.symbol,
                 old_symbol |-> old.symbol, date |-> DateOf(tx.executed_at),
                 old_date |-> DateOf(old.executed_at),
                 repriced |-> /\ old.tx_type \in BuyTypes
                              /\ tx.tx_type \in BuyTypes
                              /\ <<tx.quantity, tx.unit_price>> # <<old.quantity, old.unit_price>>
                              /\ SellPnlChanged(transactions, db.transactions, 0),
                 removed |-> Cardinality(snapshots) - Cardinality(snapshots')]
  /\ UNCHANGED today

\* delete_transaction(tx_id), for the row at index i.
DeleteTransaction(i) ==
  LET old == transactions[i]
      db  == RecalculatePosition(
               [transactions |-> Rerank(Remove(transactions, i)), positions |-> positions],
               old.portfolio_id, old.symbol)
  IN
  /\ i \in 1..Len(transactions)
  /\ OneOrNone(PositionRows(positions, old.portfolio_id, old.symbol))
  /\ transactions' = db.transactions
  /\ positions' = db.positions
  /\ snapshots' = InvalidateSnapshots(snapshots, old.portfolio_id, DateOf(old.executed_at))
  /\ last_op' = [op |-> "delete", portfolio_id |-> old.portfolio_id, symbol |-> old.symbol,
                 date |-> DateOf(old.executed_at),
                 repriced |-> /\ old.tx_type \in BuyTypes
                              /\ SellPnlChanged(transactions, db.transactions, i),
                 removed |-> Cardinality(snapshots) - Cardinality(snapshots')]
  /\ UNCHANGED today

\* The (portfolio, symbol) pairs the loops of recalculate_all_portfolios visit.
HeldPairs(txs) == {<<txs[i].portfolio_id, txs[i].symbol>> : i \in 1..Len(txs)}

RECURSIVE RecalculateEach(_, _)
RecalculateEach(db, pairs) ==
  IF pairs = {} THEN db
  ELSE LET pr == CHOOSE x \in pairs : TRUE
       IN RecalculateEach(RecalculatePosition(db, pr[1], pr[2]), pairs \ {pr})

\* Two rows that the order_by of recalculate_position cannot tell apart.
Tied(a, b) == a.executed_at = b.executed_at /\ a.created_at = b.created_at

\* The table in every order in which the database may hold it when the
\* select runs: rows that tie on both keys of the order_by have no order
\* of their own and are returned as they are held; all other rows keep
\* their order.
TiedOrders(txs) ==
  LET n     == Len(txs)
      perms == {q \in [1..n -> 1..n] :
                  /\ \A i, j \in 1..n : i # j => q[i] # q[j]
                  /\ \A i, j \in 1..n :
                        (i < j /\ ~Tied(txs[q[i]], txs[q[j]])) => q[i] < q[j]}
  IN {[i \in 1..n |-> txs[q[i]]] : q \in perms}

\* recalculate_all_portfolios(): recalculate_position for every portfolio
\* and every symbol of its transactions.
RecalculateAllPortfolios ==
  \E held \in TiedOrders(transactions) :
    LET db == RecalculateEach([transactions |-> held, positions |-> positions],
                              HeldPairs(held))
    IN
    /\ transactions # << >>
    /\ \A pr \in HeldPairs(transactions) : OneOrNone(PositionRows(positions, pr[1], pr[2]))
    /\ transactions' = db.transactions
    /\ positions' = db.positions
    /\ last_op' = [op |-> "recalculate_all"]
    /\ UNCHANGED <<snapshots, today>>

\* One create_transaction of a request whose database transaction began at
\* created_at, on the tables db = [transactions, positions, snapshots].
CreateInSession(db, data, created_at) ==
  LET tx  == [portfolio_id |-> data.portfolio_id, symbol |-> data.symbol,
              tx_type |-> data.tx_type, quantity |-> data.quantity,
              unit_price |-> data.unit_price, fee |-> data.fee,
              executed_at |-> data.executed_at, realized_pnl |-> 0,
              created_at |-> created_at]
      upd == UpdatePosition(db.positions, tx)
  IN [transactions |-> Append(db.transactions, [tx EXCEPT !.realized_pnl = upd.realized_pnl]),
      positions |-> upd.positions,
      snapshots |-> InvalidateSnapshots(db.snapshots, tx.portfolio_id,
                                        DateOf(tx.executed_at))]

\* for tx_data in transactions: await service.create_transaction(tx_data)
RECURSIVE ImportEach(_, _, _)
ImportEach(db, datas, created_at) ==
  IF datas = << >> THEN db
  ELSE ImportEach(CreateInSession(db, Head(datas), created_at), Tail(datas), created_at)

\* import_csv (api/transaction.py 200-247): the parsed rows are created one
\* after the other in the session of the request, which get_db commits at
\* the end; func.now() gives every row of the request the same created_at.
ImportCsv(datas) ==
  LET db == ImportEach([transactions |-> transactions, positions |-> positions,
                        snapshots |-> snapshots],
                       datas, CreatedAtNow(transactions))
  IN
  /\ datas # << >>
  /\ Len(transactions) + Len(datas) <= MaxTx
  /\ \A k \in 1..Len(datas) :
        OneOrNone(PositionRows(positions, datas[k].portfolio_id, datas[k].symbol))
  /\ transactions' = db.transactions
  /\ positions' = db.positions
  /\ snapshots' = db.snapshots
  /\ last_op' = [op |-> "import", rows |-> Len(datas)]
  /\ UNCHANGED today

\* save_net_worth_snapshot(portfolio_id); net_worth is summary.net_worth.
SaveNetWorthSnapshot(portfolio_id, net_worth) ==
  LET rows == {r \in snapshots :
                 r.portfolio_id = portfolio_id /\ r.snapshot_date = today}
  IN
  /\ OneOrNone(rows)
  /\ snapshots' = (snapshots \ rows) \cup
                    {[portfolio_id |-> portfolio_id, snapshot_date |-> today,
                      net_worth |-> net_worth]}
  /\ last_op' = [op |-> "snapshot", portfolio_id |-> portfolio_id, date |-> today]
  /\ UNCHANGED <<transactions, positions, today>>

\* Midnight passes.
AdvanceDay ==
  /\ today < MaxDay
  /\ today' = today + 1
  /\ UNCHANGED <<transactions, positions, snapshots, last_op>>

(***************************************************************************)
(* Part 3b.  PortfolioService.get_summary and get_history                  *)
(*                                                                         *)
(* Every transaction of a symbol carries the same asset category, so the   *)
(* category of a transaction or a position is a function of its symbol.    *)
(* The reply of the USD/TWD rate lookup is [st |-> "error"] when get_price *)
(* raised and [st |-> "result", price |-> n] otherwise.  Net-worth values  *)
(* are whole numbers.                                                      *)
(***************************************************************************)

\* AssetCategory.slug of the category a symbol is booked under.
CategorySlug(symbol) ==
  IF symbol = "TWD" THEN "fiat"
  ELSE IF symbol = "LOAN" THEN "liability"
  ELSE "us_stock"

\* usd_twd_rate = Decimal("32.0")
DefaultUsdTwdRate == 32

\* The rate lookup with the reply's price taken as it comes.
UsdTwdRateAsReplied(rate_reply) ==
  IF rate_reply.st = "result" THEN rate_reply.price ELSE DefaultUsdTwdRate

\* usd_twd_rate after the lookup of "TWD=X" (lines 77-84 and 379-385): the
\* default stays when get_price raised or its price is not positive.
UsdTwdRate(rate_reply) ==
  IF rate_reply.st = "result" /\ rate_reply.price > 0
  THEN rate_reply.price
  ELSE DefaultUsdTwdRate

\* current_price of a position in get_summary: 1 for fiat and liability,
\* else the quote get_prices_batch holds for the symbol (0 when the lookup
\* failed).
CurrentPrice(symbol, current_price) ==
  IF CategorySlug(symbol) \in {"fiat", "liability"} THEN 1 ELSE current_price

\* total_value_twd of one position row (lines 106-121).
TotalValueTwd(r, current_price, usd_twd_rate) ==
  r.total_quantity * CurrentPrice(r.symbol, current_price) *
    (IF CategorySlug(r.symbol) \in {"us_stock", "crypto"} THEN usd_twd_rate ELSE 1)

RECURSIVE SumValues(_, _, _)
SumValues(rows, current_price, usd_twd_rate) ==
  IF rows = {} THEN 0
  ELSE LET r == CHOOSE x \in rows : TRUE
       IN (IF CategorySlug(r.symbol) = "liability"
           THEN 0 - TotalValueTwd(r, current_price, usd_twd_rate)
           ELSE TotalValueTwd(r, current_price, usd_twd_rate))
          + SumValues(rows \ {r}, current_price, usd_twd_rate)

\* get_summary(portfolio_id).net_worth: total_assets - total_liabilities
\* over the positions with a quantity other than 0.
SummaryNetWorth(pos, portfolio_id, current_price, rate_reply) ==
  SumValues({r \in pos : r.portfolio_id = portfolio_id /\ r.total_quantity # 0},
            current_price, UsdTwdRate(rate_reply))

\* records: the snapshots of the portfolio dated start_date or later
\* (lines 289-296).
HistoryRecords(snaps, portfolio_id, start_date) ==
  {r \in snaps : r.portfolio_id = portfolio_id /\ r.snapshot_date >= start_date}

\* record_map (lines 297-305): snapshot_date -> net_worth, with today's
\* live value when today has no snapshot.  Each entry is tagged with where
\* it comes from.
RecordMap(records, live) ==
  [d \in {r.snapshot_date : r \in records} \cup {today} |->
     IF \E r \in records : r.snapshot_date = d
     THEN [value |-> (CHOOSE r \in records : r.snapshot_date = d).net_worth,
           source |-> "snapshot"]
     ELSE [value |-> live, source |-> "live"]]

\* len(records) > (days * 0.8) and len(records) > 1
TrustSnapshots(records, days) ==
  /\ 10 * Cardinality(records) > 8 * days
  /\ Cardinality(records) > 1

\* The point of current_date in snapshot mode (lines 311-319): the entry of
\* record_map for that date, else the value last seen, which is
\* records[0].net_worth before any entry was seen.
SnapshotModePoint(records, record_map, start_date, current_date) ==
  LET seen  == {d \in DOMAIN record_map : start_date <= d /\ d <= current_date}
      first == CHOOSE r \in records : \A q \in records : r.snapshot_date <= q.snapshot_date
  IN IF current_date \in DOMAIN record_map
     THEN [date |-> current_date, value |-> record_map[current_date].value,
           source |-> record_map[current_date].source]
     ELSE IF seen # {}
     THEN [date |-> current_date,
           value |-> record_map[CHOOSE d \in seen : \A e \in seen : e <= d].value,
           source |-> "carried"]
     ELSE [date |-> current_date, value |-> first.net_worth, source |-> "carried"]

\* tx_records: the transactions of the portfolio (lines 328-335).
HistoryTxIndices(txs, portfolio_id) ==
  {i \in 1..Len(txs) : txs[i].portfolio_id = portfolio_id}

\* symbols_to_fetch (lines 346-349)
SymbolsToFetch(txs, idx) ==
  {txs[i].symbol : i \in {j \in idx : CategorySlug(txs[j].symbol) \notin {"fiat", "liability"}}}

\* The change a transaction makes to holdings[key] (lines 416-419, 431-434).
HoldingDelta(tx) ==
  IF tx.tx_type \in {"buy", "deposit", "dividend"} THEN tx.quantity
  ELSE IF tx.tx_type \in {"sell", "withdraw"} THEN 0 - tx.quantity
  ELSE 0

\* One of the two while loops over tx_records (lines 412-420, 427-435):
\* from cursor cur = [tx_idx, holdings] the rows of `order` are applied to
\* the holdings as long as their date is before `date` (strict) or is
\* `date` (not strict).
RECURSIVE AdvanceCursor(_, _, _, _, _)
AdvanceCursor(txs, order, cur, date, strict) ==
  IF /\ cur.tx_idx <= Len(order)
     /\ IF strict THEN DateOf(txs[order[cur.tx_idx]].executed_at) < date
                  ELSE DateOf(txs[order[cur.tx_idx]].executed_at) = date
  THEN LET tx == txs[order[cur.tx_idx]]
       IN AdvanceCursor(txs, order,
            [tx_idx |-> cur.tx_idx + 1,
             holdings |-> [cur.holdings EXCEPT ![tx.symbol] = @ + HoldingDelta(tx)]],
            date, strict)
  ELSE cur

\* The cursor after the loop of current_date: the rows before start_date
\* are applied first, then the rows of each day of the window in turn.
RECURSIVE CursorOnDay(_, _, _, _)
CursorOnDay(txs, order, start_date, current_date) ==
  IF current_date < start_date
  THEN AdvanceCursor(txs, order,
         [tx_idx |-> 1,
          holdings |-> [sym \in {txs[order[k]].symbol : k \in 1..Len(order)} |-> 0]],
         start_date, TRUE)
  ELSE AdvanceCursor(txs, order, CursorOnDay(txs, order, start_date, current_date - 1),
                     current_date, FALSE)

\* The sum over holdings.items() (lines 438-447) for holdings of fiat and
\* liability symbols.
RECURSIVE HoldingsValue(_, _)
HoldingsValue(holdings, symbols) ==
  IF symbols = {} THEN 0
  ELSE LET sym == CHOOSE x \in symbols : TRUE
       IN (IF CategorySlug(sym) = "liability" THEN 0 - holdings[sym] ELSE holdings[sym])
          + HoldingsValue(holdings, symbols \ {sym})

\* daily_net_worth of current_date (lines 405-449) for a log of fiat and
\* liability rows, taken in executed_at order.
DailyNetWorth(txs, idx, start_date, current_date) ==
  LET cur == CursorOnDay(txs, SortIndices(txs, idx), start_date, current_date)
  IN HoldingsValue(cur.holdings, DOMAIN cur.holdings)

\* A price lookup whose backward search has no limit.
GetPriceForDateUnbounded(p_dict, current_price, target_date) ==
  LET earlier == {d \in DOMAIN p_dict : d < target_date}
  IN IF target_date >= today THEN current_price
     ELSE IF target_date \in DOMAIN p_dict THEN p_dict[target_date]
     ELSE IF earlier # {}
     THEN p_dict[CHOOSE d \in earlier : \A e \in earlier : e <= d]
     ELSE current_price

\* get_price_for_date(sym, target_date) (lines 387-403).  p_dict is
\* history_prices.get(sym, {}), a function from dates to closes;
\* current_price is current_prices.get(sym, Decimal("0")).
GetPriceForDate(p_dict, current_price, target_date) ==
  LET found == {j \in 1..7 : (target_date - j) \in DOMAIN p_dict}
  IN IF target_date >= today THEN current_price
     ELSE IF target_date \in DOMAIN p_dict THEN p_dict[target_date]
     ELSE IF found # {}
     THEN p_dict[target_date - (CHOOSE j \in found : \A k \in found : j <= k)]
     ELSE current_price

\* One evaluation of get_price_for_date, recorded with its arguments.
PriceLookup(p_dict, current_price, target_date) ==
  /\ last_op' = [op |-> "price", p_dict |-> p_dict, current_price |-> current_price,
                 target_date |-> target_date,
                 result |-> GetPriceForDate(p_dict, current_price, target_date)]
  /\ UNCHANGED <<transactions, positions, snapshots, today>>

\* A replay in which the computed value wins over the snapshot of the day.
ReplayModePointComputed(record_map, current_date, daily_net_worth) ==
  [date |-> current_date, value |-> daily_net_worth, source |-> "replay"]

\* final_val = record_map.get(current_date, daily_net_worth) (line 452)
ReplayModePoint(record_map, current_date, daily_net_worth) ==
  IF current_date \in DOMAIN record_map
  THEN [date |-> current_date, value |-> record_map[current_date].value,
        source |-> record_map[current_date].source]
  ELSE [date |-> current_date, value |-> daily_net_worth, source |-> "replay"]

\* The mutation a history request follows, kept across history requests
\* and forgotten once a snapshot is saved.
LastMutation ==
  IF last_op.op \in {"create", "update", "delete"}
  THEN [op |-> last_op.op, portfolio_id |-> last_op.portfolio_id, date |-> last_op.date]
  ELSE IF last_op.op \in {"history", "summary"} THEN last_op.after
  ELSE NoOp

\* What get_history(portfolio_id, days) returns or raises.  `current_price`
\* is the quote of the stock symbols for today's live value, `rate_reply`
\* the reply of the rate lookup.
HistoryResult(portfolio_id, days, current_price, rate_reply) ==
  LET start_date == today - (days - 1)
      records    == HistoryRecords(snapshots, portfolio_id, start_date)
      record_map == RecordMap(records,
                               SummaryNetWorth(positions, portfolio_id, current_price, rate_reply))
      idx        == HistoryTxIndices(transactions, portfolio_id)
  IN IF TrustSnapshots(records, days)
     THEN [mode |-> "snapshot",
           history |-> [i \in 1..days |->
                          SnapshotModePoint(records, record_map, start_date, start_date + i - 1)]]
     ELSE IF idx = {}
     THEN [mode |-> "empty",
           history |-> [i \in 1..days |->
                          [date |-> start_date + i - 1, value |-> 0, source |-> "zero"]]]
     ELSE IF SymbolsToFetch(transactions, idx) # {}
     THEN \* self.price_manager.get_historical_prices: PriceManager has no
          \* such attribute (its method is get_historical)
          [mode |-> "error", history |-> << >>]
     ELSE [mode |-> "replay",
           history |-> [i \in 1..days |->
                          ReplayModePoint(record_map, start_date + i - 1,
                            DailyNetWorth(transactions, idx, start_date,
                                          start_date + i - 1))]]

\* A history request that stores today's live value as today's snapshot.
GetHistoryPersisting(portfolio_id, days, current_price, rate_reply) ==
  LET res  == HistoryResult(portfolio_id, days, current_price, rate_reply)
      rows == {r \in snapshots : r.portfolio_id = portfolio_id /\ r.snapshot_date = today}
  IN
  /\ days >= 1
  /\ last_op' = [op |-> "history", portfolio_id |-> portfolio_id, days |-> days,
                 current_price |-> current_price, rate_reply |-> rate_reply,
                 mode |-> res.mode, history |-> res.history, after |-> LastMutation]
  /\ snapshots' = IF rows = {}
                  THEN snapshots \cup
                         {[portfolio_id |-> portfolio_id, snapshot_date |-> today,
                           net_worth |-> SummaryNetWorth(positions, portfolio_id,
                                                         current_price, rate_reply)]}
                  ELSE snapshots
  /\ UNCHANGED <<transactions, positions, today>>

\* get_history(portfolio_id, days)
GetHistory(portfolio_id, days, current_price, rate_reply) ==
  LET res == HistoryResult(portfolio_id, days, current_price, rate_reply)
  IN
  /\ days >= 1
  /\ \A d \in 1..today : OneOrNone({r \in snapshots :
                            r.portfolio_id = portfolio_id /\ r.snapshot_date = d})
  /\ last_op' = [op |-> "history", portfolio_id |-> portfolio_id, days |-> days,
                 current_price |-> current_price, rate_reply |-> rate_reply,
                 mode |-> res.mode, history |-> res.history, after |-> LastMutation]
  /\ UNCHANGED <<transactions, positions, snapshots, today>>

\* get_summary(portfolio_id): the net_worth of the summary it returns.
GetSummary(portfolio_id, current_price, rate_reply) ==
  /\ last_op' = [op |-> "summary", portfolio_id |-> portfolio_id,
                 current_price |-> current_price, rate_reply |-> rate_reply,
                 net_worth |-> SummaryNetWorth(positions, portfolio_id,
                                               current_price, rate_reply),
                 after |-> LastMutation]
  /\ UNCHANGED <<transactions, positions, snapshots, today>>

(***************************************************************************)
(* Part 3c.  Cache requests and PriceManager.get_prices_batch              *)
(*                                                                         *)
(* One task issues the requests; the time-to-live of an entry elapses at   *)
(* any moment between two of its steps.  The JSON encoding of the shared   *)
(* store maps the dicts of _price_to_dict (strings and None) to themselves.*)
(***************************************************************************)

tableVars == <<transactions, positions, snapshots, today>>

\* cache_get_stale(key).  Shared store: the key, then "stale:" + key, each
\* gone once its TTL elapsed.  In-process store: the _memory_cache entry
\* without a look at its expire_at, then the _stale_cache entry.
CacheGetStale(key) ==
  IF use_redis
  THEN IF fresh[key] # None /\ fresh[key].live THEN fresh[key].value
       ELSE IF stale[key] # None /\ stale[key].live THEN stale[key].value
       ELSE None
  ELSE IF fresh[key] # None THEN fresh[key].value
       ELSE IF stale[key] # None /\ stale[key].live THEN stale[key].value
       ELSE None

\* get_stale_cached_price(provider, symbol)
GetStaleCachedPrice(provider, symbol) ==
  LET data == CacheGetStale(MakeKey(provider, symbol))
  IN IF data # None THEN DictToPrice(data) ELSE None

\* cache_set(key, value, ttl)
CacheSet(key, value) ==
  /\ fresh' = CacheSetFreshTier(key, value)
  /\ stale' = CacheSetStaleTier(key, value)
  /\ last_op' = [op |-> "cache_set", key |-> key, value |-> value]
  /\ UNCHANGED <<use_redis, fetching, future, pc, args, cached, price, awaited,
                 outcome, overlap, tableVars, jobVars>>

\* A cache_get(key) request; the entries it found are kept with its result.
CacheGetRequest(key) ==
  /\ last_op' = [op |-> "cache_get", key |-> key, result |-> CacheGet(key),
                 fresh |-> fresh[key], stale |-> stale[key]]
  /\ UNCHANGED <<pmVars, tableVars, jobVars>>

\* A cache_get_stale(key) request.
CacheGetStaleRequest(key) ==
  /\ last_op' = [op |-> "cache_get_stale", key |-> key, result |-> CacheGetStale(key),
                 fresh |-> fresh[key], stale |-> stale[key]]
  /\ UNCHANGED <<pmVars, tableVars, jobVars>>

\* _STALE_TTL elapses for an entry.  An entry's two tiers are written
\* together and price_cache_ttl (300) is below _STALE_TTL (86400), so the
\* fresh tier has expired before.
ExpireStale(key) ==
  /\ stale[key] # None
  /\ stale[key].live
  /\ fresh[key] = None \/ ~fresh[key].live
  /\ stale' = [stale EXCEPT ![key] = [value |-> stale[key].value, live |-> FALSE]]
  /\ UNCHANGED <<use_redis, fresh, fetching, future, pc, args, cached, price,
                 awaited, outcome, overlap, ledgerVars, jobVars>>

\* Most items of one get_prices_batch call.
MaxItems == 2

\* items: lists of (symbol, category_slug); one symbol in every category
\* and its other spelling in the category with a network provider.
BatchItems ==
  [symbol : {"BTC"}, category_slug : PMCategories]
  \cup [symbol : PMSymbols, category_slug : {"crypto"}]
BatchRequests == UNION {[1..n -> BatchItems] : n \in 0..MaxItems}

\* The task that runs get_prices_batch.
BatchCaller == 1

\* results: dict[str, PriceData] = {}
NoResults == [s \in {} |-> None]

\* PriceData(symbol=symbol, price=Decimal("0"), ..., source="error")
ErrorQuote(symbol) ==
  [symbol |-> symbol, price |-> 0, change_24h |-> {}, source |-> "error"]

BatchRunning == batch.st = "running"

\* The item the loop of get_prices_batch is at.
BatchItem == batch.items[Len(batch.log) + 1]

\* get_prices_batch(items, force_refresh) is called.
GetPricesBatch(items, force_refresh) ==
  /\ ~BatchRunning
  /\ pc[BatchCaller] = "idle"
  /\ batch' = [st |-> IF Len(items) = 0 THEN "done" ELSE "running",
               items |-> items, force_refresh |-> force_refresh,
               results |-> NoResults, log |-> << >>, raised |-> FALSE]
  /\ UNCHANGED <<pmVars, ledgerVars, saving, copyVars>>

\* await self.get_price(symbol, category_slug, force_refresh=force_refresh)
BatchGetPrice ==
  /\ BatchRunning
  /\ pc[BatchCaller] = "idle"
  /\ GetPriceStart(BatchCaller, BatchItem.symbol, BatchItem.category_slug,
                   batch.force_refresh)
  /\ UNCHANGED <<ledgerVars, jobVars>>

\* results[symbol] = quote
SetItem(results, symbol, quote) ==
  [s \in DOMAIN results \cup {symbol} |-> IF s = symbol THEN quote ELSE results[s]]

\* The log entry of an item: whether get_price raised, the quote stored
\* for it, and what the fallback read and a stale read gave at that moment.
BatchLogEntry(failed, quote, fallback) ==
  LET provider_name == CATEGORY_PROVIDER_MAP(BatchItem.category_slug)
  IN [symbol |-> BatchItem.symbol, failed |-> failed, quote |-> quote,
      fresh_entry |-> fallback,
      stale_entry |-> IF failed /\ provider_name \in Providers
                      THEN GetStaleCachedPrice(provider_name, BatchItem.symbol)
                      ELSE None]

\* The call frame of get_price is gone once it returned or raised.
ReleaseFrame(c) ==
  /\ pc' = [pc EXCEPT ![c] = "idle"]
  /\ args' = [args EXCEPT ![c] = NoArgs]
  /\ cached' = [cached EXCEPT ![c] = None]
  /\ price' = [price EXCEPT ![c] = None]
  /\ awaited' = [awaited EXCEPT ![c] = NoCaller]
  /\ outcome' = [outcome EXCEPT ![c] = [st |-> "none"]]
  /\ future' = [future EXCEPT ![c] = [st |-> "none"]]

\* get_prices_batch without its except branch: the exception of an item
\* ends the call.
BatchCollectRaising ==
  LET c      == BatchCaller
      failed == outcome[c].st # "result"
      quote  == IF failed THEN None ELSE outcome[c].val
  IN
  /\ BatchRunning
  /\ pc[c] = "done"
  /\ ReleaseFrame(c)
  /\ batch' = [batch EXCEPT
                 !.results = IF failed THEN @ ELSE SetItem(@, BatchItem.symbol, quote),
                 !.log = Append(@, BatchLogEntry(failed, quote, None)),
                 !.raised = failed,
                 !.st = IF failed \/ Len(batch.log) + 1 = Len(batch.items)
                        THEN "done" ELSE "running"]
  /\ UNCHANGED <<use_redis, fresh, stale, fetching, overlap, ledgerVars, saving, copyVars>>

\* get_price returned or raised: manager.py 144-165.  On an exception the
\* fallback is get_cached_price, the read of the fresh tier.
BatchCollect ==
  LET c             == BatchCaller
      provider_name == CATEGORY_PROVIDER_MAP(BatchItem.category_slug)
      failed        == outcome[c].st # "result"
      fallback      == IF failed /\ provider_name # ""
                       THEN GetCachedPrice(provider_name, BatchItem.symbol)
                       ELSE None
      quote         == IF ~failed THEN outcome[c].val
                       ELSE IF fallback # None THEN fallback
                       ELSE ErrorQuote(BatchItem.symbol)
  IN
  /\ BatchRunning
  /\ pc[c] = "done"
  /\ ReleaseFrame(c)
  /\ batch' = [batch EXCEPT
                 !.results = SetItem(@, BatchItem.symbol, quote),
                 !.log = Append(@, BatchLogEntry(failed, quote, fallback)),
                 !.st = IF Len(batch.log) + 1 = Len(batch.items)
                        THEN "done" ELSE "running"]
  /\ UNCHANGED <<use_redis, fresh, stale, fetching, overlap, ledgerVars, saving, copyVars>>

(***************************************************************************)
(* Part 3c'.  The cache functions while the shared store fails             *)
(*                                                                         *)
(* A shared store is configured.  `outage` says what fails during a call:  *)
(* "connect" (get_redis gives None: from_url or ping raised), "first" or   *)
(* "second" (that Redis command of the call raises), or "none".  A result  *)
(* is [raised, failed, value]: whether the function raised to its caller,  *)
(* whether it met a failure, and what it returned.                         *)
(***************************************************************************)

Outages == {"none", "connect", "first", "second"}

\* The fallback of cache_get (lines 68-75).
MemoryGet(key) ==
  IF memory_cache[key] # None /\ memory_cache[key].live
  THEN memory_cache[key].value ELSE None

\* The fallback of cache_get_stale (lines 100-111).
MemoryGetStale(key) ==
  IF memory_cache[key] # None THEN memory_cache[key].value
  ELSE IF stale_cache[key] # None /\ stale_cache[key].live THEN stale_cache[key].value
  ELSE None

\* What a Redis GET of a tier replies when it is served.
RedisGet(tier, key) ==
  IF tier[key] # None /\ tier[key].live THEN tier[key].value ELSE None

\* A cache_get without the try/except around the Redis command.
CacheGetUnguarded(key, outage) ==
  IF outage = "connect"
  THEN [raised |-> FALSE, failed |-> TRUE, value |-> MemoryGet(key)]
  ELSE IF outage = "first"
  THEN [raised |-> TRUE, failed |-> TRUE, value |-> None]
  ELSE IF RedisGet(fresh, key) # None
  THEN [raised |-> FALSE, failed |-> FALSE, value |-> RedisGet(fresh, key)]
  ELSE [raised |-> FALSE, failed |-> FALSE, value |-> MemoryGet(key)]

\* cache_get(key) (lines 55-75)
CacheGetOutage(key, outage) ==
  IF outage = "connect"
  THEN [raised |-> FALSE, failed |-> TRUE, value |-> MemoryGet(key)]
  ELSE IF outage = "first"
  THEN \* except Exception as e: logger.warning(...)
       [raised |-> FALSE, failed |-> TRUE, value |-> MemoryGet(key)]
  ELSE IF RedisGet(fresh, key) # None
  THEN [raised |-> FALSE, failed |-> FALSE, value |-> RedisGet(fresh, key)]
  ELSE [raised |-> FALSE, failed |-> FALSE, value |-> MemoryGet(key)]

\* cache_get_stale(key) (lines 78-111)
CacheGetStaleOutage(key, outage) ==
  IF outage = "connect"
  THEN [raised |-> FALSE, failed |-> TRUE, value |-> MemoryGetStale(key)]
  ELSE IF outage = "first"
  THEN \* except Exception: pass
       [raised |-> FALSE, failed |-> TRUE, value |-> MemoryGetStale(key)]
  ELSE IF RedisGet(fresh, key) # None
  THEN [raised |-> FALSE, failed |-> FALSE, value |-> RedisGet(fresh, key)]
  ELSE IF outage = "second"
  THEN [raised |-> FALSE, failed |-> TRUE, value |-> MemoryGetStale(key)]
  ELSE IF RedisGet(stale, key) # None
  THEN [raised |-> FALSE, failed |-> FALSE, value |-> RedisGet(stale, key)]
  ELSE [raised |-> FALSE, failed |-> FALSE, value |-> MemoryGetStale(key)]

\* A cache_get(key) request.
OutageGet(key, outage) ==
  /\ use_redis
  /\ last_op' = [op |-> "get", key |-> key, outage |-> outage,
                 res |-> CacheGetOutage(key, outage),
                 memory_cache |-> memory_cache[key], stale_cache |-> stale_cache[key]]
  /\ UNCHANGED <<pmVars, tableVars, jobVars>>

\* A cache_get_stale(key) request.
OutageGetStale(key, outage) ==
  /\ use_redis
  /\ last_op' = [op |-> "get_stale", key |-> key, outage |-> outage,
                 res |-> CacheGetStaleOutage(key, outage),
                 memory_cache |-> memory_cache[key], stale_cache |-> stale_cache[key]]
  /\ UNCHANGED <<pmVars, tableVars, jobVars>>

\* A cache_set(key, value, ttl) request (lines 114-134): the two SETs and
\* the return, or the writes of the two dicts after a failure.
OutageSet(key, value, outage) ==
  LET entry == [value |-> value, live |-> TRUE]
  IN
  /\ use_redis
  /\ fresh' = IF outage \in {"none", "second"} THEN CacheSetFreshTier(key, value) ELSE fresh
  /\ stale' = IF outage = "none" THEN CacheSetStaleTier(key, value) ELSE stale
  /\ memory_cache' = IF outage = "none" THEN memory_cache
                     ELSE [memory_cache EXCEPT ![key] = entry]
  /\ stale_cache' = IF outage = "none" THEN stale_cache
                    ELSE [stale_cache EXCEPT ![key] = entry]
  /\ last_op' = [op |-> "set", key |-> key, outage |-> outage, value |-> value,
                 res |-> [raised |-> FALSE, failed |-> outage # "none", value |-> None]]
  /\ UNCHANGED <<use_redis, fetching, future, pc, args, cached, price, awaited,
                 outcome, overlap, tableVars, batch, saving>>

\* time.time() passes the expire_at of the _memory_cache entry.
ExpireMemory(key) ==
  /\ memory_cache[key] # None
  /\ memory_cache[key].live
  /\ memory_cache' = [memory_cache EXCEPT ![key] = [@ EXCEPT !.live = FALSE]]
  /\ UNCHANGED <<pmVars, ledgerVars, batch, saving, stale_cache>>

\* time.time() passes the expire_at of the _stale_cache entry, which is
\* later than that of the _memory_cache entry written with it.
ExpireStaleCopy(key) ==
  /\ stale_cache[key] # None
  /\ stale_cache[key].live
  /\ memory_cache[key] = None \/ ~memory_cache[key].live
  /\ stale_cache' = [stale_cache EXCEPT ![key] = [@ EXCEPT !.live = FALSE]]
  /\ UNCHANGED <<pmVars, ledgerVars, batch, saving, memory_cache>>

(***************************************************************************)
(* Part 3d.  Overlapping save_net_worth_snapshot calls                     *)
(*                                                                         *)
(* Each call runs in a database session of its own and its writes reach    *)
(* the table when the caller commits.  net_worth stands for the four value *)
(* columns of the row.  No row is deleted while the calls run, so a row of *)
(* a (portfolio, date) is the row a session loaded for that pair.          *)
(***************************************************************************)

\* select(HistoricalNetWorth).where(portfolio_id == ..).where(snapshot_date == ..)
SnapshotRows(snaps, portfolio_id, date) ==
  {r \in snaps : r.portfolio_id = portfolio_id /\ r.snapshot_date = date}

\* save_net_worth_snapshot(portfolio_id) up to its select (lines 228-238);
\* net_worth is summary.net_worth.
SaveBegin(s, portfolio_id, net_worth) ==
  LET rows == SnapshotRows(snapshots, portfolio_id, today)
  IN
  /\ saving[s] = NoSave
  /\ OneOrNone(rows)
  /\ saving' = [saving EXCEPT ![s] =
                  [st |-> "selected", portfolio_id |-> portfolio_id, date |-> today,
                   net_worth |-> net_worth, existing |-> ScalarOneOrNone(rows)]]
  /\ UNCHANGED <<pmVars, ledgerVars, batch, copyVars>>

\* What the commit of a call writes (lines 253-271 and the flush of the
\* session).  A loaded row is updated in place: the flush emits an UPDATE
\* for the attributes whose new value differs from the loaded one, none
\* when all are equal, and fails with StaleDataError when the row is gone.
\* A new row is inserted, and uq_portfolio_date rejects it with
\* IntegrityError when the pair has a row by then.
Commit(snaps, f) ==
  LET rows == SnapshotRows(snaps, f.portfolio_id, f.date)
      row  == [portfolio_id |-> f.portfolio_id, snapshot_date |-> f.date,
               net_worth |-> f.net_worth]
  IN IF f.existing # None
     THEN IF rows = {} THEN [ok |-> FALSE, snapshots |-> snaps]
          ELSE IF f.net_worth = f.existing.net_worth
          THEN [ok |-> TRUE, snapshots |-> snaps]
          ELSE [ok |-> TRUE, snapshots |-> (snaps \ rows) \cup {row}]
     ELSE IF rows # {} THEN [ok |-> FALSE, snapshots |-> snaps]
          ELSE [ok |-> TRUE, snapshots |-> snaps \cup {row}]

\* The rest of the call and the caller's commit (or its rollback when the
\* flush raised).
SaveCommit(s) ==
  LET f   == saving[s]
      res == Commit(snapshots, f)
  IN
  /\ f.st = "selected"
  /\ snapshots' = res.snapshots
  /\ saving' = [saving EXCEPT ![s] = NoSave]
  /\ last_op' = [op |-> "save", portfolio_id |-> f.portfolio_id, date |-> f.date,
                 net_worth |-> f.net_worth, ok |-> res.ok,
                 updated |-> f.existing # None]
  /\ UNCHANGED <<pmVars, transactions, positions, today, batch, copyVars>>

(***************************************************************************)
(* Part 3e.  Overlapping create_transaction calls                          *)
(*                                                                         *)
(* Each request runs in a session of its own (database.py 56-64) on        *)
(* PostgreSQL at its default isolation level: a select sees what has been  *)
(* committed, the writes of a session reach the tables when get_db commits,*)
(* and an UPDATE or INSERT that meets an uncommitted write of the same row *)
(* waits for that commit.                                                  *)
(***************************************************************************)

\* create_transaction(data) in session s up to its flush (lines 42-59):
\* _update_position has selected the position of the pair and changed or
\* created the ORM object.  `loaded` is the row as selected, `written` the
\* object after the changes.  The session began after the sessions that are
\* open, so its created_at lies after theirs.
CreateFlush(s, data) ==
  LET open == {saving[t].tx.created_at + 1 :
                 t \in {u \in Savers : saving[u] # NoSave /\ saving[u].st = "flushed"}}
      now  == CHOOSE m \in open \cup {CreatedAtNow(transactions)} :
                \A n \in open \cup {CreatedAtNow(transactions)} : n <= m
      tx   == [portfolio_id |-> data.portfolio_id, symbol |-> data.symbol,
               tx_type |-> data.tx_type, quantity |-> data.quantity,
               unit_price |-> data.unit_price, fee |-> data.fee,
               executed_at |-> data.executed_at, realized_pnl |-> 0,
               created_at |-> now]
      rows == PositionRows(positions, tx.portfolio_id, tx.symbol)
      upd  == UpdatePosition(positions, tx)
  IN
  /\ saving[s] = NoSave
  /\ Len(transactions) + Cardinality({t \in Savers : saving[t] # NoSave}) < MaxTx
  /\ OneOrNone(rows)
  /\ saving' = [saving EXCEPT ![s] =
                  [st |-> "flushed",
                   tx |-> [tx EXCEPT !.realized_pnl = upd.realized_pnl],
                   loaded |-> ScalarOneOrNone(rows),
                   written |-> ScalarOneOrNone(
                                 PositionRows(upd.positions, tx.portfolio_id, tx.symbol))]]
  /\ UNCHANGED <<pmVars, ledgerVars, batch, copyVars>>

\* What the flush and commit of frame f leave in the tables db.  A loaded
\* position is updated by primary key with the attributes whose value the
\* session changed (no UPDATE when it changed none; StaleDataError when
\* the row is gone); a new position is inserted and uq_portfolio_symbol
\* (models/position.py 26) rejects it when the pair has a row by then.
\* A failed flush rolls the session back.
CommitCreate(db, f) ==
  LET rows   == PositionRows(db.positions, f.tx.portfolio_id, f.tx.symbol)
      failed == [ok |-> FALSE, transactions |-> db.transactions, positions |-> db.positions]
      stored == Append(db.transactions, f.tx)
  IN IF f.written = f.loaded
     THEN [ok |-> TRUE, transactions |-> stored, positions |-> db.positions]
     ELSE IF f.loaded = None
     THEN IF rows # {} THEN failed
          ELSE [ok |-> TRUE, transactions |-> stored,
                positions |-> db.positions \cup {f.written}]
     ELSE IF rows = {} THEN failed
     ELSE LET cur == CHOOSE r \in rows : TRUE
          IN [ok |-> TRUE, transactions |-> stored,
              positions |->
                (db.positions \ rows) \cup
                {[cur EXCEPT
                    !.total_quantity = IF f.written.total_quantity # f.loaded.total_quantity
                                       THEN f.written.total_quantity ELSE @,
                    !.avg_cost = IF f.written.avg_cost # f.loaded.avg_cost
                                 THEN f.written.avg_cost ELSE @]}]

\* The rest of create_transaction and the commit of get_db (line 60), or
\* its rollback when the flush raised.
CreateCommit(s) ==
  LET f   == saving[s]
      res == CommitCreate([transactions |-> transactions, positions |-> positions], f)
  IN
  /\ f.st = "flushed"
  /\ transactions' = res.transactions
  /\ positions' = res.positions
  /\ snapshots' = IF res.ok
                  THEN InvalidateSnapshots(snapshots, f.tx.portfolio_id,
                                           DateOf(f.tx.executed_at))
                  ELSE snapshots
  /\ saving' = [saving EXCEPT ![s] = NoSave]
  /\ last_op' = [op |-> "commit", portfolio_id |-> f.tx.portfolio_id,
                 symbol |-> f.tx.symbol, ok |-> res.ok]
  /\ UNCHANGED <<pmVars, today, batch, copyVars>>

(***************************************************************************)
(* Part 4.  Specifications                                                 *)
(***************************************************************************)

\* Concurrent get_price calls on one PriceManager.
PMNext ==
  \/ \E c \in Callers, s \in PMSymbols, cat \in PMCategories, f \in BOOLEAN :
        GetPriceStart(c, s, cat, f) /\ UNCHANGED <<ledgerVars, jobVars>>
  \/ \E c \in Callers : CacheGetResume(c) /\ UNCHANGED <<ledgerVars, jobVars>>
  \/ \E c \in Callers : \E q \in ProviderQuotes(args[c].symbol) :
        ProviderReturn(c, q) /\ UNCHANGED <<ledgerVars, jobVars>>
  \/ \E c \in Callers : CacheSetFresh(c) /\ UNCHANGED <<ledgerVars, jobVars>>
  \/ \E c \in Callers : CacheSetDone(c) /\ UNCHANGED <<ledgerVars, jobVars>>
  \/ \E c \in Callers : \E e \in ProviderErrors : ProviderFail(c, e) /\ UNCHANGED <<ledgerVars, jobVars>>
  \/ \E c \in Callers : WaiterResume(c) /\ UNCHANGED <<ledgerVars, jobVars>>
  \/ \E c \in Callers : Cancel(c) /\ UNCHANGED <<ledgerVars, jobVars>>
  \/ \E k \in CacheKeys : ExpireFresh(k) /\ UNCHANGED <<ledgerVars, jobVars>>

SpecPM == InitPM /\ [][PMNext]_vars

\* Requests of different API calls and the refresh job, each with the
\* PriceManager it constructs, over the in-process store.
RequestsNext ==
  \/ \E c \in Callers, s \in PMSymbols, cat \in PMCategories, f \in BOOLEAN :
        GetPriceOnNewManager(c, s, cat, f) /\ UNCHANGED <<ledgerVars, jobVars>>
  \/ \E c \in Callers : \E q \in ProviderQuotes(args[c].symbol) :
        ProviderReturn(c, q) /\ UNCHANGED <<ledgerVars, jobVars>>
  \/ \E c \in Callers : \E e \in ProviderErrors : ProviderFail(c, e) /\ UNCHANGED <<ledgerVars, jobVars>>
  \/ \E c \in Callers : Cancel(c) /\ UNCHANGED <<ledgerVars, jobVars>>
  \/ \E k \in CacheKeys : ExpireFresh(k) /\ UNCHANGED <<ledgerVars, jobVars>>

SpecRequests == InitLedger /\ [][RequestsNext]_vars

\* Requests of the ledger slice: buys and sells of one symbol of one
\* portfolio; a sell may be entered before a buy that executes earlier;
\* buys are edited and any row is deleted.
LedgerInputs ==
  [portfolio_id : {"p1"}, symbol : {"AAPL"}, tx_type : {"buy"},
   quantity : {4, 10}, unit_price : {100, 120}, fee : {1}, executed_at : {1}]
  \cup
  [portfolio_id : {"p1"}, symbol : {"AAPL"}, tx_type : {"sell"},
   quantity : {4}, unit_price : {120}, fee : {1}, executed_at : {1, 2}]

LedgerUpdates == [quantity : {4, 10}] \cup [unit_price : {100, 120}]

LedgerNext ==
  \/ \E data \in LedgerInputs : CreateTransaction(data) /\ UNCHANGED <<pmVars, jobVars>>
  \/ \E i \in 1..MaxTx, u \in LedgerUpdates :
        /\ i <= Len(transactions)
        /\ transactions[i].tx_type = "buy"
        /\ UpdateTransaction(i, u)
        /\ UNCHANGED <<pmVars, jobVars>>
  \/ \E i \in 1..MaxTx : DeleteTransaction(i) /\ UNCHANGED <<pmVars, jobVars>>
  \/ RecalculateAllPortfolios /\ UNCHANGED <<pmVars, jobVars>>

SpecLedger == InitLedger /\ [][LedgerNext]_vars

\* Logs of every transaction type for the replay function: rows are
\* entered, a sale possibly ahead of rows that execute before it, and the
\* maintenance recalculation runs at any point.
RecalcInputs ==
  [portfolio_id : {"p1"}, symbol : {"AAPL"}, tx_type : {"buy"},
   quantity : {4, 10}, unit_price : {100, 120}, fee : {1}, executed_at : {1}]
  \cup
  [portfolio_id : {"p1"}, symbol : {"AAPL"}, tx_type : {"sell"},
   quantity : {4, 10}, unit_price : {120}, fee : {1}, executed_at : {1, 2}]
  \cup
  [portfolio_id : {"p1"}, symbol : {"AAPL"}, tx_type : {"dividend", "deposit", "withdraw"},
   quantity : {4}, unit_price : {120}, fee : {1}, executed_at : {1}]

RecalcNext ==
  \/ \E data \in RecalcInputs : CreateTransaction(data) /\ UNCHANGED <<pmVars, jobVars>>
  \/ RecalculateAllPortfolios /\ UNCHANGED <<pmVars, jobVars>>

SpecRecalc == InitLedger /\ [][RecalcNext]_vars

\* Transaction mutations of two portfolios against the snapshot table.
SnapInputs ==
  [portfolio_id : {"p1"}, symbol : {"AAPL"}, tx_type : {"buy"},
   quantity : {4}, unit_price : {100}, fee : {1}, executed_at : {1, 3}]

SnapUpdates == [executed_at : {1, 3}]

SnapNext ==
  \/ \E data \in SnapInputs : CreateTransaction(data) /\ UNCHANGED <<pmVars, jobVars>>
  \/ \E i \in 1..MaxTx, u \in SnapUpdates : UpdateTransaction(i, u) /\ UNCHANGED <<pmVars, jobVars>>
  \/ \E i \in 1..MaxTx : DeleteTransaction(i) /\ UNCHANGED <<pmVars, jobVars>>
  \/ \E p \in {"p1", "p2"} : SaveNetWorthSnapshot(p, 100) /\ UNCHANGED <<pmVars, jobVars>>
  \/ AdvanceDay /\ UNCHANGED <<pmVars, jobVars>>

SpecSnap == InitLedger /\ [][SnapNext]_vars

\* The calendar day on which the history requests of SpecHistory are made.
HistToday == 11

\* The first instant of a calendar day.
InstantOf(day) == (day - 1) * SlotsPerDay + 1

\* History requests over a ledger of cash deposits and one stock purchase,
\* dated yesterday or tomorrow, in a portfolio whose snapshots were saved
\* day after day from day 1 up to some day before today.
HistoryInputs ==
  [portfolio_id : {"p1"}, symbol : {"TWD"}, tx_type : {"deposit"},
   quantity : {100}, unit_price : {1}, fee : {1},
   executed_at : {InstantOf(HistToday - 1), InstantOf(HistToday + 1)}]
  \cup
  [portfolio_id : {"p1"}, symbol : {"AAPL"}, tx_type : {"buy"},
   quantity : {4}, unit_price : {100}, fee : {1},
   executed_at : {InstantOf(HistToday - 1)}]

\* The `days` arguments of the history requests.
HistoryWindows == {1, 2, 5, HistToday}

\* Current stock quotes: 0 (lookup failed) or 2.
HistoryPrices == {0, 2}

\* The rate lookup raised.
RateUnavailable == [st |-> "error"]

\* A rate the provider quotes, other than the default.
OtherUsdTwdRate == 30

InitHistory ==
  /\ use_redis = FALSE
  /\ PMInit
  /\ transactions = << >>
  /\ positions = {}
  /\ today = HistToday
  /\ last_op = NoOp
  /\ JobInit
  /\ \E k \in 0..(HistToday - 1) :
        snapshots = {[portfolio_id |-> "p1", snapshot_date |-> d, net_worth |-> 0] :
                       d \in 1..k}

HistoryNext ==
  \/ \E data \in HistoryInputs : CreateTransaction(data) /\ UNCHANGED <<pmVars, jobVars>>
  \/ \E i \in 1..MaxTx : DeleteTransaction(i) /\ UNCHANGED <<pmVars, jobVars>>
  \/ \E pr \in HistoryPrices :
        SaveNetWorthSnapshot("p1", SummaryNetWorth(positions, "p1", pr, RateUnavailable))
        /\ UNCHANGED <<pmVars, jobVars>>
  \/ \E days \in HistoryWindows, pr \in HistoryPrices :
        GetHistory("p1", days, pr, RateUnavailable) /\ UNCHANGED <<pmVars, jobVars>>

SpecHistory == InitHistory /\ [][HistoryNext]_vars

\* Valuations of a portfolio of stock purchases under every reply of the
\* rate lookup: it raised, or it gave a price that is zero, negative or
\* positive.
RateReplies ==
  {RateUnavailable} \cup [st : {"result"}, price : {0 - 1, 0, OtherUsdTwdRate}]

RateInputs ==
  [portfolio_id : {"p1"}, symbol : {"AAPL"}, tx_type : {"buy"},
   quantity : {4}, unit_price : {100}, fee : {1},
   executed_at : {InstantOf(HistToday - 1)}]

RateNext ==
  \/ \E data \in RateInputs : CreateTransaction(data) /\ UNCHANGED <<pmVars, jobVars>>
  \/ \E pr \in HistoryPrices, reply \in RateReplies :
        GetSummary("p1", pr, reply) /\ UNCHANGED <<pmVars, jobVars>>
  \/ \E days \in HistoryWindows, pr \in HistoryPrices, reply \in RateReplies :
        GetHistory("p1", days, pr, reply) /\ UNCHANGED <<pmVars, jobVars>>

SpecRate == InitHistory /\ [][RateNext]_vars

\* Historical series: closes on some of the days 1, 2, 3, 9 and 10, the
\* close of day d being 100 + d.  Lookups are made for every day up to
\* tomorrow.
CloseDates == {1, 2, 3, HistToday - 2, HistToday - 1}
CloseBase == 100
ClosesOf(D) == [d \in D |-> CloseBase + d]

PriceNext ==
  \E D \in SUBSET CloseDates, pr \in HistoryPrices, target_date \in 1..(HistToday + 1) :
     PriceLookup(ClosesOf(D), pr, target_date) /\ UNCHANGED <<pmVars, jobVars>>

\* The lookups read no table: they start from the empty snapshot table.
InitPrice == InitHistory /\ snapshots = {}

SpecPrice == InitPrice /\ [][PriceNext]_vars

\* get, get_stale and set requests on one key while its TTLs elapse.
CacheValues == {PriceToDict(q) : q \in UNION {ProviderQuotes(sym) : sym \in PMSymbols}}

CacheNext ==
  \/ \E k \in CacheKeys, v \in CacheValues : CacheSet(k, v)
  \/ \E k \in CacheKeys : CacheGetRequest(k)
  \/ \E k \in CacheKeys : CacheGetStaleRequest(k)
  \/ \E k \in CacheKeys : ExpireFresh(k) /\ UNCHANGED <<ledgerVars, jobVars>>
  \/ \E k \in CacheKeys : ExpireStale(k)

SpecCache == InitPM /\ [][CacheNext]_vars

\* Requests of one task against a shared store that fails at any call.
OutageValues == {PriceToDict(q) : q \in ProviderQuotes("BTC")}

OutageNext ==
  \/ \E k \in CacheKeys, o \in Outages : OutageGet(k, o)
  \/ \E k \in CacheKeys, o \in Outages : OutageGetStale(k, o)
  \/ \E k \in CacheKeys, v \in OutageValues, o \in Outages : OutageSet(k, v, o)
  \/ \E k \in CacheKeys : ExpireFresh(k) /\ UNCHANGED <<ledgerVars, jobVars>>
  \/ \E k \in CacheKeys : ExpireStale(k)
  \/ \E k \in CacheKeys : ExpireMemory(k)
  \/ \E k \in CacheKeys : ExpireStaleCopy(k)

InitOutage == InitPM /\ use_redis

SpecOutage == InitOutage /\ [][OutageNext]_vars

\* get_prices_batch calls of one task, one after another, while the TTLs
\* of the entries they wrote elapse.
BatchNext ==
  \/ \E items \in BatchRequests, f \in BOOLEAN : GetPricesBatch(items, f)
  \/ BatchGetPrice
  \/ CacheGetResume(BatchCaller) /\ UNCHANGED <<ledgerVars, jobVars>>
  \/ \E q \in ProviderQuotes(args[BatchCaller].symbol) :
        ProviderReturn(BatchCaller, q) /\ UNCHANGED <<ledgerVars, jobVars>>
  \/ CacheSetFresh(BatchCaller) /\ UNCHANGED <<ledgerVars, jobVars>>
  \/ CacheSetDone(BatchCaller) /\ UNCHANGED <<ledgerVars, jobVars>>
  \/ \E e \in ProviderErrors :
        ProviderFail(BatchCaller, e) /\ UNCHANGED <<ledgerVars, jobVars>>
  \/ BatchCollect
  \/ \E k \in CacheKeys : ExpireFresh(k) /\ UNCHANGED <<ledgerVars, jobVars>>
  \/ \E k \in CacheKeys : ExpireStale(k)

SpecBatch == InitPM /\ [][BatchNext]_vars

\* summary.net_worth at the time of a call.
SaveValues == {0, 100}

\* Snapshot requests for one portfolio from the sessions, over the days.
SaveNext ==
  \/ \E s \in Savers, v \in SaveValues : SaveBegin(s, "p1", v)
  \/ \E s \in Savers : SaveCommit(s)
  \/ AdvanceDay /\ UNCHANGED <<pmVars, jobVars>>

SpecSave == InitLedger /\ [][SaveNext]_vars

\* Purchases of one pair entered from the sessions, all with the same
\* execution instant: entered one after the other they leave the position
\* of the replay.
SessionInputs ==
  [portfolio_id : {"p1"}, symbol : {"AAPL"}, tx_type : {"buy"},
   quantity : {4, 10}, unit_price : {100, 120}, fee : {1}, executed_at : {1}]

SessionsNext ==
  \/ \E s \in Savers, data \in SessionInputs : CreateFlush(s, data)
  \/ \E s \in Savers : CreateCommit(s)

SpecSessions == InitLedger /\ [][SessionsNext]_vars

(***************************************************************************)
(* Part 5.  Properties                                                     *)
(***************************************************************************)

\* The call of caller c created a Future, that is, it called the provider.
CalledProvider(c) == future[c].st # "none"

\* The call of caller c ended by returning a quote or raising an error.
Returned(c) == pc[c] = "done" /\ outcome[c].st \in {"result", "exception"}

\* C1: get_price calls for one (provider, symbol) that overlap in time
\* during a cache miss (no forced refresh, neither cache tier holds the
\* key, no call cancelled) cause one provider call between them, and those
\* that return get the same quote or the same error.
C1_SingleFlight ==
  \A c, d \in Callers :
     ( /\ <<c, d>> \in overlap
       /\ ~args[c].force_refresh /\ ~args[d].force_refresh
       /\ outcome[c].st # "cancelled" /\ outcome[d].st # "cancelled"
       /\ fresh[KeyOf(c)] = None
       /\ stale[KeyOf(c)] = None )
     => /\ ~(CalledProvider(c) /\ CalledProvider(d))
        /\ (Returned(c) /\ Returned(d) => outcome[c] = outcome[d])

\* C2: a caller that waits on an in-flight entry is never left waiting on
\* a Future that nobody will resolve: while it waits, the Future is done
\* (the waiter is about to resume) or the call that registered it is still
\* fetching.
C2_WaitersReturn ==
  \A c \in Callers :
     pc[c] = "waiting" =>
        \/ future[awaited[c]].st # "pending"
        \/ Fetching(awaited[c])

\* C3: the in-flight map holds an entry for a key only while the call that
\* registered it is between its registration and its finally block.
C3_NoLeakedInFlight ==
  \A k \in FlightKeys :
     fetching[k] # NoCaller =>
        /\ Fetching(fetching[k])
        /\ FlightKeyOf(fetching[k]) = k

\* C3 witness: calls that registered an entry have ended, one by a
\* raised failure and one by cancellation, and the map is empty.
C3_Witness ==
  /\ \E c \in Callers :
        CalledProvider(c) /\ pc[c] = "done" /\ outcome[c].st = "exception"
  /\ \E c \in Callers :
        CalledProvider(c) /\ pc[c] = "done" /\ outcome[c].st = "cancelled"
  /\ \A k \in FlightKeys : fetching[k] = NoCaller

\* The two tables recalculate_position reads and writes.
Tables == [transactions |-> transactions, positions |-> positions]

\* The (portfolio, symbol) pairs either table mentions.
LedgerPairs ==
  HeldPairs(transactions) \cup {<<r.portfolio_id, r.symbol>> : r \in positions}

\* The replay order of the log of one pair.
SortedLog(pr) == SortIndices(transactions, TxIndices(transactions, pr[1], pr[2]))

\* The running state of the replay after the first k rows of `order`.
ReplayPrefix(order, k) == Replay(ReplayStart, transactions, SubSeq(order, 1, k))

\* The position row that carries the replay state st of pair pr.
RowOf(pr, st) ==
  [portfolio_id |-> pr[1], symbol |-> pr[2],
   total_quantity |-> st.qty, avg_cost |-> st.avg]

\* C4: for every (portfolio, symbol) the stored Position and the stored
\* realized_pnl of every transaction equal what a full replay of the
\* current log yields, after any sequence of create, update and delete.
C4_StoredEqualsReplay ==
  \A pr \in LedgerPairs : RecalculatePosition(Tables, pr[1], pr[2]) = Tables

\* C5: in the replay a SELL or WITHDRAW gets realized_pnl =
\* (unit_price - avg_cost) * quantity - fee at 4 places, lowers the
\* quantity by its own and leaves avg_cost alone; only BUY and DEPOSIT move
\* avg_cost; the maintenance recalculation stores that realized_pnl; and
\* BUY 10 @ 100 fee 1, SELL 4 @ 120 fee 1 ends with avg_cost 100,
\* quantity 6 and realized_pnl 79 on the sale.
C5_SellKeepsAvgCost ==
  /\ \A pr \in HeldPairs(transactions) :
        LET order == SortedLog(pr)
        IN \A k \in 1..Len(order) :
              LET i      == order[k]
                  tx     == transactions[i]
                  before == ReplayPrefix(order, k - 1)
                  after  == ReplayPrefix(order, k)
              IN /\ tx.tx_type \in SellTypes =>
                      /\ after.pnl[i] = SellRealizedPnl(tx, before.avg)
                      /\ before.avg[2] = 0 =>
                            after.pnl[i] =
                              ((tx.unit_price - before.avg[1]) * tx.quantity - tx.fee) * Scale4
                      /\ after.qty = before.qty - tx.quantity
                      /\ after.avg = before.avg
                      /\ last_op.op = "recalculate_all" => tx.realized_pnl = after.pnl[i]
                 /\ tx.tx_type \notin BuyTypes => after.avg = before.avg
  /\ LET row(t, q, p) == [portfolio_id |-> "p1", symbol |-> "AAPL", tx_type |-> t,
                          quantity |-> q, unit_price |-> p, fee |-> 1,
                          executed_at |-> 1, realized_pnl |-> 0]
         log == <<row("buy", 10, 100), row("sell", 4, 120)>>
     IN Replay(ReplayStart, log, <<1, 2>>) =
          [qty |-> 6, avg |-> <<100, 0>>, pnl |-> (1 :> 0) @@ (2 :> 79 * Scale4)]

\* C5 witness: the log BUY 10 @ 100, SELL 4 @ 120 has been recalculated and
\* the tables hold avg_cost 100, quantity 6 and realized_pnl 79.
C5_Witness ==
  /\ last_op.op = "recalculate_all"
  /\ Len(transactions) = 2
  /\ transactions[1].tx_type = "buy" /\ transactions[1].quantity = 10
  /\ transactions[1].unit_price = 100
  /\ transactions[2].tx_type = "sell" /\ transactions[2].quantity = 4
  /\ transactions[2].unit_price = 120
  /\ transactions[2].realized_pnl = 79 * Scale4
  /\ positions = {RowOf(<<"p1", "AAPL">>, [qty |-> 6, avg |-> <<100, 0>>])}

RECURSIVE TotalQuantity(_, _)
TotalQuantity(txs, idx) ==
  IF idx = {} THEN 0
  ELSE LET i == CHOOSE x \in idx : TRUE
       IN txs[i].quantity + TotalQuantity(txs, idx \ {i})

RECURSIVE TotalCost(_, _)
TotalCost(txs, idx) ==
  IF idx = {} THEN 0
  ELSE LET i == CHOOSE x \in idx : TRUE
       IN txs[i].quantity * txs[i].unit_price + TotalCost(txs, idx \ {i})

\* avg * Q - S as a pair, for the replay result of an all-BUY log with
\* total quantity Q and total cost S.
MeanError(pr) ==
  LET idx == TxIndices(transactions, pr[1], pr[2])
  IN DecAdd(DecMulInt(ReplayPrefix(SortedLog(pr), Cardinality(idx)).avg,
                      TotalQuantity(transactions, idx)),
            DecFromInt(0 - TotalCost(transactions, idx)))

\* C6: for a log of n BUY rows with total quantity Q and total cost S the
\* replay ends with quantity Q and an avg_cost within n half-quanta
\* (n * 0.000000005) of S / Q, and gives every BUY realized_pnl 0; the
\* maintenance recalculation stores exactly that.
C6_AllBuyWeightedMean ==
  \A pr \in HeldPairs(transactions) :
     LET idx   == TxIndices(transactions, pr[1], pr[2])
         order == SortedLog(pr)
         final == ReplayPrefix(order, Len(order))
         Q     == TotalQuantity(transactions, idx)
         d     == MeanError(pr)
         e     == d[1] * Scale8 + d[2]
     IN (\A i \in idx : transactions[i].tx_type = "buy") =>
           /\ final.qty = Q
           /\ d[1] \in {0 - 1, 0}
           /\ 2 * (IF e < 0 THEN 0 - e ELSE e) <= Len(order) * Q
           /\ \A i \in idx : final.pnl[i] = 0
           /\ last_op.op = "recalculate_all" =>
                 /\ positions = {RowOf(pr, final)}
                 /\ \A i \in idx : transactions[i].realized_pnl = 0

\* C6 witness: three BUY rows have been recalculated to an avg_cost that
\* had to be rounded.
C6_Witness ==
  /\ last_op.op = "recalculate_all"
  /\ Len(transactions) = 3
  /\ \A i \in 1..3 : transactions[i].tx_type = "buy"
  /\ \E r \in positions : r.avg_cost[2] # 0
  /\ MeanError(<<"p1", "AAPL">>) # <<0, 0>>

\* C7: after update_transaction or delete_transaction every SELL and
\* WITHDRAW of the affected pair carries the realized_pnl computed with the
\* avg_cost the replay of the edited log has at that sale.
C7_SellRepricedAfterEdit ==
  last_op.op \in {"update", "delete"} =>
     \A pr \in {<<last_op.portfolio_id, last_op.symbol>>} \cup
               (IF last_op.op = "update"
                THEN {<<last_op.portfolio_id, last_op.old_symbol>>} ELSE {}) :
        LET order == SortedLog(pr)
        IN \A k \in 1..Len(order) :
              LET tx == transactions[order[k]]
              IN tx.tx_type \in SellTypes =>
                    tx.realized_pnl = SellRealizedPnl(tx, ReplayPrefix(order, k - 1).avg)

\* C7 witness: the quantity or unit price of a BUY was edited and the
\* realized_pnl of a SELL changed with it.
C7_Witness == last_op.op = "update" /\ last_op.repriced

RecalculatedPairs ==
  IF last_op.op = "recalculate_all" THEN HeldPairs(transactions)
  ELSE IF last_op.op = "update"
  THEN {<<last_op.portfolio_id, last_op.symbol>>, <<last_op.portfolio_id, last_op.old_symbol>>}
  ELSE IF last_op.op = "delete" THEN {<<last_op.portfolio_id, last_op.symbol>>}
  ELSE {}

\* C9: no (portfolio, symbol) ever has two Position rows, and after a
\* recalculation a pair without transactions has no row while a pair with
\* transactions has the one row that carries the final replay state.
C9_OnePositionPerPair ==
  /\ \A pr \in LedgerPairs : Cardinality(PositionRows(positions, pr[1], pr[2])) <= 1
  /\ \A pr \in RecalculatedPairs :
        LET order == SortedLog(pr)
            rows  == PositionRows(positions, pr[1], pr[2])
        IN IF order = << >>
           THEN rows = {}
           ELSE rows = {RowOf(pr, ReplayPrefix(order, Len(order)))}

\* C9 witness: a deletion left a log whose replay ends short, and the one
\* Position row shows it.
C9_Witness ==
  /\ last_op.op = "delete"
  /\ transactions # << >>
  /\ Cardinality(positions) = 1
  /\ \E r \in positions : r.total_quantity < 0

\* C10: after create, update or delete of a transaction of portfolio p no
\* snapshot of p is dated on or after the execution date the transaction
\* has (had, for a deletion).
C10_NoSnapshotFromExecutionDate ==
  last_op.op \in {"create", "update", "delete"} =>
     \A r \in snapshots :
        r.portfolio_id = last_op.portfolio_id => r.snapshot_date < last_op.date

\* C10 witness: a mutation executed on day 2 removed a snapshot of its
\* portfolio and kept the earlier one and the other portfolio's.
C10_Witness ==
  /\ last_op.op \in {"create", "update", "delete"}
  /\ last_op.date = 2
  /\ last_op.removed > 0
  /\ \E r \in snapshots : r.portfolio_id = last_op.portfolio_id /\ r.snapshot_date = 1
  /\ \E r \in snapshots : r.portfolio_id # last_op.portfolio_id /\ r.snapshot_date = 2

\* The persisted snapshot rows of a portfolio on one date.
SnapshotsOn(portfolio_id, date) ==
  {r \in snapshots : r.portfolio_id = portfolio_id /\ r.snapshot_date = date}

\* C11: a history request that follows a transaction mutation with
\* execution date d, with no snapshot saved in between, gives no day on or
\* after d a value carried forward from an older snapshot: every such day
\* is replayed (or is today's live value, or 0 for an empty log).
C11_ReplayAfterInvalidation ==
  ( /\ last_op.op = "history"
    /\ last_op.after.op \in {"create", "update", "delete"}
    /\ last_op.after.portfolio_id = last_op.portfolio_id )
  => \A i \in 1..Len(last_op.history) :
        last_op.history[i].date >= last_op.after.date =>
           last_op.history[i].source \in {"replay", "live", "zero"}

\* C16: get_history(portfolio, days) returns `days` points, one for each
\* day from today - (days - 1) to today in ascending order, in every mode;
\* for a portfolio without transactions outside snapshot mode every value
\* is 0.
C16_OnePointPerDay ==
  last_op.op = "history" =>
     /\ last_op.mode # "error"
     /\ Len(last_op.history) = last_op.days
     /\ \A i \in 1..Len(last_op.history) :
           last_op.history[i].date = today - last_op.days + i
     /\ last_op.mode = "empty" =>
           \A i \in 1..Len(last_op.history) : last_op.history[i].value = 0

\* C17: get_history answers from the snapshots exactly when the persisted
\* snapshots in the window number at least 80% of `days` and at least 2.
C17_SnapshotModeRule ==
  last_op.op = "history" =>
     LET n == Cardinality({r \in snapshots :
                             /\ r.portfolio_id = last_op.portfolio_id
                             /\ r.snapshot_date >= today - (last_op.days - 1)
                             /\ r.snapshot_date <= today})
     IN last_op.mode = "snapshot" <=> (5 * n >= 4 * last_op.days /\ n >= 2)

C19_HistoryKeepsSnapshots ==
  [][(last_op'.op = "history" /\ last_op' # last_op) => snapshots' = snapshots]_vars

\* C19 witness: a history request used a live value for today and today
\* still has no snapshot.
C19_Witness ==
  /\ last_op.op = "history"
  /\ \E i \in 1..Len(last_op.history) :
        last_op.history[i].date = today /\ last_op.history[i].source = "live"
  /\ SnapshotsOn(last_op.portfolio_id, today) = {}

\* The TTL of the fresh entry a request found has elapsed, or no fresh
\* entry was there.
FreshElapsed(op) == op.fresh = None \/ ~op.fresh.live

\* C12: cache_get(key) returns the value set while its TTL has not
\* elapsed and nothing once it has; cache_get_stale(key) returns the value
\* after the TTL elapsed and before the stale TTL elapsed; in both stores.
C12_CacheTtl ==
  /\ (last_op.op = "cache_get" /\ last_op.fresh # None) =>
        last_op.result = IF last_op.fresh.live THEN last_op.fresh.value ELSE None
  /\ ( /\ last_op.op = "cache_get_stale"
       /\ FreshElapsed(last_op)
       /\ last_op.stale # None
       /\ last_op.stale.live ) =>
        last_op.result = last_op.stale.value

\* C12 witness: a stale read in the in-process store returned the value
\* after its TTL elapsed and before the stale TTL elapsed.
C12_Witness ==
  /\ ~use_redis
  /\ last_op.op = "cache_get_stale"
  /\ last_op.fresh # None
  /\ ~last_op.fresh.live
  /\ last_op.stale # None
  /\ last_op.stale.live
  /\ last_op.result = last_op.stale.value

\* C13: cache_get_stale(key) returns nothing once the stale TTL has
\* elapsed since the last cache_set(key), in both stores.
C13_StaleReadExpires ==
  ( /\ last_op.op = "cache_get_stale"
    /\ last_op.stale # None
    /\ ~last_op.stale.live ) =>
     last_op.result = None

\* The symbols a batch call was asked for.
RequestedSymbols == {batch.items[i].symbol : i \in 1..Len(batch.items)}

\* C14: a get_prices_batch call that ran to its end did not raise, its
\* result has one entry for every requested symbol (the quote stored for
\* the last item of that symbol), and an item whose get_price failed while
\* neither cache tier held an entry has price 0 and source "error".
C14_BatchNeverRaises ==
  batch.st = "done" =>
     /\ ~batch.raised
     /\ Len(batch.log) = Len(batch.items)
     /\ DOMAIN batch.results = RequestedSymbols
     /\ \A i \in 1..Len(batch.log) :
           /\ batch.log[i].symbol = batch.items[i].symbol
           /\ (\A j \in (i + 1)..Len(batch.log) : batch.log[j].symbol # batch.log[i].symbol)
                 => batch.results[batch.log[i].symbol] = batch.log[i].quote
           /\ ( /\ batch.log[i].failed
                /\ batch.log[i].fresh_entry = None
                /\ batch.log[i].stale_entry = None )
                 => /\ batch.log[i].quote.price = 0
                    /\ batch.log[i].quote.source = "error"

\* C14 witness: a finished batch in which get_price failed for one item
\* that has no cache entry and succeeded for another.
C14_Witness ==
  /\ batch.st = "done"
  /\ Len(batch.log) >= 2
  /\ \E i, j \in 1..Len(batch.log) :
        /\ batch.log[i].failed
        /\ batch.log[i].stale_entry = None
        /\ batch.log[i].quote.source = "error"
        /\ ~batch.log[j].failed
        /\ batch.log[j].symbol # batch.log[i].symbol
        /\ batch.results[batch.log[j].symbol].price > 0

\* C15: an item of get_prices_batch whose get_price failed is answered
\* with the stale-tier entry whenever a stale read finds one, and with the
\* zero-price error quote only when it finds none.
C15_StaleFallback ==
  batch.st \in {"running", "done"} =>
     \A i \in 1..Len(batch.log) :
        batch.log[i].failed =>
           IF batch.log[i].stale_entry # None
           THEN batch.log[i].quote = batch.log[i].stale_entry
           ELSE batch.log[i].quote.source = "error"

\* C20: a (portfolio, date) never has two snapshots, and after a
\* save_net_worth_snapshot call completed the snapshot of its (portfolio,
\* date) is one row holding the values of that call, whether the calls ran
\* one after another or overlapped.
C20_OneSnapshotOfLastCall ==
  /\ \A r, q \in snapshots :
        (r.portfolio_id = q.portfolio_id /\ r.snapshot_date = q.snapshot_date) => r = q
  /\ (last_op.op = "save" /\ last_op.ok) =>
        SnapshotsOn(last_op.portfolio_id, last_op.date) =
          {[portfolio_id |-> last_op.portfolio_id, snapshot_date |-> last_op.date,
            net_worth |-> last_op.net_worth]}


\* The quantity a ledger row adds to the holding of its pair.
LedgerDelta(tx) ==
  IF tx.tx_type \in BuyTypes THEN tx.quantity
  ELSE IF tx.tx_type \in SellTypes THEN 0 - tx.quantity
  ELSE 0

\* The indices of S in ascending order: the order the rows were entered.
RECURSIVE Ascending(_)
Ascending(S) ==
  IF S = {} THEN << >>
  ELSE LET m == CHOOSE i \in S : \A j \in S : i <= j
       IN <<m>> \o Ascending(S \ {m})

RECURSIVE NetQuantity(_, _)
NetQuantity(txs, order) ==
  IF order = << >> THEN 0
  ELSE LedgerDelta(txs[Head(order)]) + NetQuantity(txs, Tail(order))

\* Some sale of the rows, taken in `order`, exceeds what the rows ahead of
\* it left.
Oversold(txs, order) ==
  \E k \in 1..Len(order) :
     /\ txs[order[k]].tx_type \in SellTypes
     /\ NetQuantity(txs, SubSeq(order, 1, k)) < 0

\* The create that just ran stored a SELL/WITHDRAW of a pair that had no
\* position row.
SoldWithoutHolding ==
  /\ last_op'.op = "create"
  /\ Len(transactions') = Len(transactions) + 1
  /\ transactions'[Len(transactions')].tx_type \in SellTypes
  /\ PositionRows(positions, transactions'[Len(transactions')].portfolio_id,
                   transactions'[Len(transactions')].symbol) = {}

\* C25: a SELL or WITHDRAW of a pair with no prior holding is accepted: the
\* row is stored behind the rows that were there and the pair gets one
\* position whose total_quantity is the negated sold quantity; and a
\* position's total_quantity is negative only when some sale of its log
\* exceeds the holding ahead of it (in entry order or in replay order).
C25_OversellGoesNegative ==
  /\ [](\A r \in positions :
          r.total_quantity < 0 =>
            LET idx == TxIndices(transactions, r.portfolio_id, r.symbol)
            IN \/ Oversold(transactions, Ascending(idx))
               \/ Oversold(transactions, SortIndices(transactions, idx)))
  /\ [][SoldWithoutHolding =>
          LET tx == transactions'[Len(transactions')]
          IN /\ SubSeq(transactions', 1, Len(transactions)) = transactions
             /\ \E r \in positions' :
                   /\ PositionRows(positions', tx.portfolio_id, tx.symbol) = {r}
                   /\ r.total_quantity = 0 - tx.quantity]_vars

\* A lone WITHDRAW was stored and its pair holds the negated quantity.
C25_Witness ==
  /\ last_op.op = "create"
  /\ Len(transactions) = 1
  /\ transactions[1].tx_type = "withdraw"
  /\ \E r \in positions : r.total_quantity = 0 - transactions[1].quantity


\* Caller c enters get_price without force_refresh for a provider-backed
\* category while the fresh tier holds an unexpired entry of its key.
StartsOnFreshEntry(c) ==
  /\ pc[c] = "idle"
  /\ pc'[c] # "idle"
  /\ ~args'[c].force_refresh
  /\ CATEGORY_PROVIDER_MAP(args'[c].category_slug) \in Providers
  /\ GetCachedPrice(CATEGORY_PROVIDER_MAP(args'[c].category_slug), args'[c].symbol) # None

\* C27: a get_price without force_refresh that finds an unexpired fresh
\* entry returns that entry, and none of its steps calls a provider,
\* registers an in-flight fetch or writes a cache tier.
C27_FreshHitChangesNothing ==
  [][\A c \in Callers :
       /\ StartsOnFreshEntry(c) =>
             LET hit == GetCachedPrice(CATEGORY_PROVIDER_MAP(args'[c].category_slug),
                                       args'[c].symbol)
             IN /\ <<fresh, stale, fetching, future>>' = <<fresh, stale, fetching, future>>
                /\ \/ pc'[c] = "done" /\ outcome'[c] = [st |-> "result", val |-> hit]
                   \/ pc'[c] = "cache_get" /\ cached'[c] = hit
       /\ (pc[c] = "cache_get" /\ cached[c] # None /\ pc'[c] # "cache_get"
            /\ outcome'[c].st # "cancelled") =>
             /\ <<fresh, stale, fetching, future>>' = <<fresh, stale, fetching, future>>
             /\ pc'[c] = "done"
             /\ outcome'[c] = [st |-> "result", val |-> cached[c]]]_vars

\* A call served from the shared store's fresh entry has returned: it never
\* fetched and never awaited another call.
C27_Witness ==
  \E c \in Callers :
     /\ use_redis
     /\ pc[c] = "done"
     /\ ~args[c].force_refresh
     /\ cached[c] # None
     /\ outcome[c] = [st |-> "result", val |-> cached[c]]
     /\ price[c] = None
     /\ awaited[c] = NoCaller


\* C26: when a get_price call returns a quote it fetched from the provider,
\* the fresh and the stale tier both hold that quote (in the stored form of
\* _price_to_dict) under the call's cache key.
C26_FetchedQuoteInBothTiers ==
  [][\A c \in Callers :
       (Fetching(c) /\ pc'[c] = "done" /\ outcome'[c].st = "result") =>
          /\ fresh'[KeyOf(c)] # None
          /\ fresh'[KeyOf(c)].value = PriceToDict(outcome'[c].val)
          /\ stale'[KeyOf(c)] # None
          /\ stale'[KeyOf(c)].value = PriceToDict(outcome'[c].val)]_vars


\* C21: a history request that is answered by the replay (the snapshots of
\* the window are too few and the portfolio has transactions) returns its
\* full series, also when the log holds a symbol whose prices have to be
\* fetched and whose live price lookup failed.
C21_ReplayNeverFailsOnPrices ==
  last_op.op = "history" =>
     LET idx     == HistoryTxIndices(transactions, last_op.portfolio_id)
         records == HistoryRecords(snapshots, last_op.portfolio_id,
                                   today - (last_op.days - 1))
     IN (~TrustSnapshots(records, last_op.days) /\ SymbolsToFetch(transactions, idx) # {})
        => /\ last_op.mode = "replay"
           /\ Len(last_op.history) = last_op.days


\* The rate lookup of the request gave no usable rate.
NoUsableRate(reply) == reply.st = "error" \/ reply.price <= 0

\* C24: when the rate lookup raises or gives a price that is not positive,
\* get_summary returns the net worth valued at the default rate and
\* get_history returns what it returns under a lookup that quotes the
\* default rate.
C24_FallbackRate ==
  /\ (last_op.op = "summary" /\ NoUsableRate(last_op.rate_reply)) =>
        last_op.net_worth =
          SumValues({r \in positions :
                       r.portfolio_id = last_op.portfolio_id /\ r.total_quantity # 0},
                    last_op.current_price, DefaultUsdTwdRate)
  /\ (last_op.op = "history" /\ NoUsableRate(last_op.rate_reply)) =>
        LET res == HistoryResult(last_op.portfolio_id, last_op.days, last_op.current_price,
                                 [st |-> "result", price |-> DefaultUsdTwdRate])
        IN last_op.mode = res.mode /\ last_op.history = res.history

\* A summary of a portfolio that holds stock was valued at the default rate
\* after a lookup that gave the price 0, or a snapshot-mode history took
\* today's live value of such a portfolio after a lookup that raised.
C24_Witness ==
  \/ /\ last_op.op = "summary"
     /\ last_op.rate_reply = [st |-> "result", price |-> 0]
     /\ last_op.net_worth > 0
     /\ last_op.net_worth =
          4 * Cardinality(DOMAIN transactions) * last_op.current_price * DefaultUsdTwdRate
  \/ /\ last_op.op = "history"
     /\ last_op.rate_reply = RateUnavailable
     /\ last_op.mode = "snapshot"
     /\ \E i \in 1..Len(last_op.history) :
           /\ last_op.history[i].source = "live"
           /\ last_op.history[i].value > 0


\* The dates of series p_dict in the 7 days before target_date.
WithinSevenDays(p_dict, target_date) ==
  {d \in DOMAIN p_dict : target_date - 7 <= d /\ d < target_date}

\* C30: the replay's price for a target date is the live price when the
\* date is today or later; else the close of the date when the series has
\* it; else the close of the latest date of the series in the 7 days
\* before it; else the live price.
C30_PricePolicy ==
  last_op.op = "price" =>
     LET p    == last_op.p_dict
         t    == last_op.target_date
         near == WithinSevenDays(p, t)
     IN /\ t >= today => last_op.result = last_op.current_price
        /\ (t < today /\ t \in DOMAIN p) => last_op.result = p[t]
        /\ (t < today /\ t \notin DOMAIN p /\ near # {}) =>
              \E d \in near : (\A e \in near : e <= d) /\ last_op.result = p[d]
        /\ (t < today /\ t \notin DOMAIN p /\ near = {}) =>
              last_op.result = last_op.current_price

\* A lookup for a past date whose series only has a close 8 days older got
\* the live price, not that close.
C30_Witness ==
  /\ last_op.op = "price"
  /\ last_op.target_date < today
  /\ (last_op.target_date - 8) \in DOMAIN last_op.p_dict
  /\ WithinSevenDays(last_op.p_dict, last_op.target_date) = {}
  /\ last_op.target_date \notin DOMAIN last_op.p_dict
  /\ last_op.result = last_op.current_price


\* The net signed quantity of `symbol` over the rows idx of the log.
RECURSIVE HoldingOf(_, _, _)
HoldingOf(txs, idx, symbol) ==
  IF idx = {} THEN 0
  ELSE LET i == CHOOSE x \in idx : TRUE
       IN (IF txs[i].symbol = symbol THEN HoldingDelta(txs[i]) ELSE 0)
          + HoldingOf(txs, idx \ {i}, symbol)

\* The value of the net quantities of `symbols`: liabilities subtract,
\* every other symbol adds quantity * price * multiplier, which is the
\* quantity for fiat.
RECURSIVE SumHoldings(_, _, _)
SumHoldings(txs, idx, symbols) ==
  IF symbols = {} THEN 0
  ELSE LET sym == CHOOSE x \in symbols : TRUE
           qty == HoldingOf(txs, idx, sym)
       IN (IF CategorySlug(sym) = "liability" THEN 0 - qty
           ELSE IF CategorySlug(sym) = "fiat" THEN qty
           ELSE qty * last_op.current_price * UsdTwdRate(last_op.rate_reply))
          + SumHoldings(txs, idx, symbols \ {sym})

\* C29: a history request answered by the replay returns, for every day d
\* of the window that has no snapshot (and is not today's live value), the
\* value of the holdings that are the net signed quantities of the
\* transactions executed on or before d, under a price that stays at the
\* current quote.
C29_ReplayHoldings ==
  last_op.op = "history" =>
     LET idx     == HistoryTxIndices(transactions, last_op.portfolio_id)
         records == HistoryRecords(snapshots, last_op.portfolio_id,
                                   today - (last_op.days - 1))
     IN (~TrustSnapshots(records, last_op.days) /\ idx # {}) =>
          /\ Len(last_op.history) = last_op.days
          /\ \A i \in 1..Len(last_op.history) :
                last_op.history[i].source = "replay" =>
                  LET done == {j \in idx : DateOf(transactions[j].executed_at)
                                             <= last_op.history[i].date}
                  IN last_op.history[i].value =
                       SumHoldings(transactions, done, {transactions[j].symbol : j \in done})

\* The same for logs of fiat and liability rows only.
ReplayHoldingsOfCash ==
  (last_op.op = "history" /\ last_op.mode = "replay") =>
     \A i \in 1..Len(last_op.history) :
        last_op.history[i].source = "replay" =>
          LET idx  == HistoryTxIndices(transactions, last_op.portfolio_id)
              done == {j \in idx : DateOf(transactions[j].executed_at)
                                     <= last_op.history[i].date}
          IN last_op.history[i].value =
               SumHoldings(transactions, done, {transactions[j].symbol : j \in done})


\* C23: calls of different requests that overlap on one (provider, symbol)
\* while the key has to be fetched cause one provider call between them,
\* unless one of them was cancelled.
C23_OneCallAcrossRequests ==
  \A c, d \in Callers :
     ( /\ <<c, d>> \in overlap
       /\ outcome[c].st # "cancelled" /\ outcome[d].st # "cancelled" )
     => ~(CalledProvider(c) /\ CalledProvider(d))


\* C22: once the mutations of a pair that were processed concurrently have
\* all committed, the stored position and realized_pnl values of the pair
\* are those of the replay of the log: recalculating would change nothing.
C22_ConcurrentEqualsReplay ==
  (\A s \in Savers : saving[s] = NoSave) =>
     \A pr \in LedgerPairs : RecalculatePosition(Tables, pr[1], pr[2]) = Tables


\* The in-process copies a request found under its key.
CopiesSeen ==
  {e.value : e \in {last_op.memory_cache, last_op.stale_cache} \ {None}}

\* C28: a cache_get, cache_get_stale or cache_set that meets a failure of
\* the shared store does not raise; the reads return nothing or an
\* in-process copy of the key (cache_get only an unexpired one), and the
\* write leaves the value in both in-process dicts.
C28_StoreFailureIsAbsorbed ==
  (last_op.op \in {"get", "get_stale", "set"} /\ last_op.res.failed) =>
     /\ ~last_op.res.raised
     /\ last_op.op \in {"get", "get_stale"} =>
           last_op.res.value \in {None} \cup CopiesSeen
     /\ last_op.op = "get" =>
           (last_op.res.value # None =>
              /\ last_op.memory_cache # None
              /\ last_op.memory_cache.live
              /\ last_op.res.value = last_op.memory_cache.value)
     /\ last_op.op = "set" =>
           /\ memory_cache[last_op.key] # None
           /\ memory_cache[last_op.key].value = last_op.value
           /\ stale_cache[last_op.key] # None
           /\ stale_cache[last_op.key].value = last_op.value

\* A cache_get whose Redis command raised returned the in-process copy
\* that an earlier failed cache_set had left.
C28_Witness ==
  /\ last_op.op = "get"
  /\ last_op.outage = "first"
  /\ ~last_op.res.raised
  /\ last_op.res.value # None
  /\ last_op.res.value = last_op.memory_cache.value

(***************************************************************************)
(* Snapshot mode of get_history over snapshots with gaps                   *)
(***************************************************************************)

\* The `days` arguments of the requests: windows of 2 days, of 6 days and
\* of every day up to today.
StepWindows == {2, 6, HistToday}

\* A portfolio without transactions whose snapshots lie on any set of days
\* up to today; the snapshot of day d has net_worth d, so that the day a
\* value comes from can be read off the value.
InitStep ==
  /\ use_redis = FALSE
  /\ PMInit
  /\ transactions = << >>
  /\ positions = {}
  /\ today = HistToday
  /\ last_op = NoOp
  /\ JobInit
  /\ \E D \in SUBSET (1..HistToday) :
        snapshots = {[portfolio_id |-> "p1", snapshot_date |-> d, net_worth |-> d] :
                       d \in D}

StepNext ==
  \/ SaveNetWorthSnapshot("p1", SummaryNetWorth(positions, "p1", 0, RateUnavailable))
     /\ UNCHANGED <<pmVars, jobVars>>
  \/ \E days \in StepWindows :
        GetHistory("p1", days, 0, RateUnavailable) /\ UNCHANGED <<pmVars, jobVars>>

SpecStep == InitStep /\ [][StepNext]_vars

\* The snapshots of the portfolio dated on or before a day.
SnapshotsUpTo(portfolio_id, date) ==
  {r \in snapshots : r.portfolio_id = portfolio_id /\ r.snapshot_date <= date}

\* The latest of a non-empty set of snapshots of one portfolio.
LatestSnapshot(rows) ==
  CHOOSE r \in rows : \A q \in rows : q.snapshot_date <= r.snapshot_date

\* C31: in snapshot mode every day of the returned series carries the
\* net_worth of the latest snapshot of the portfolio dated on or before that
\* day (a day that has its own snapshot carries that snapshot's value).
\* Days with no snapshot on or before them, and today's live value, are not
\* constrained.
C31_StepFunction ==
  (last_op.op = "history" /\ last_op.mode = "snapshot") =>
    \A i \in 1..Len(last_op.history) :
      LET pt    == last_op.history[i]
          prior == SnapshotsUpTo(last_op.portfolio_id, pt.date)
      IN (prior # {} /\ pt.source # "live") =>
           pt.value = LatestSnapshot(prior).net_worth

\* The same statement for the days on or after the first snapshot of the
\* window.
StepFunctionInsideWindow ==
  (last_op.op = "history" /\ last_op.mode = "snapshot") =>
    \A i \in 1..Len(last_op.history) :
      LET pt     == last_op.history[i]
          start  == today - (last_op.days - 1)
          prior  == {r \in SnapshotsUpTo(last_op.portfolio_id, pt.date) :
                       r.snapshot_date >= start}
      IN (prior # {} /\ pt.source # "live") =>
           pt.value = LatestSnapshot(prior).net_worth

(***************************************************************************)
(* Dividends                                                               *)
(***************************************************************************)

\* The log without its DIVIDEND rows.
WithoutDividends(txs) == SelectSeq(txs, LAMBDA tx : tx.tx_type # "dividend")

\* unit_price * quantity - fee in units of 1/Scale4.
DividendAmount(tx) == (tx.unit_price * tx.quantity - tx.fee) * Scale4

\* After a recalculation every DIVIDEND row carries unit_price * quantity -
\* fee, and every position has the quantity and the average cost that the
\* replay of the log without its DIVIDEND rows ends with.
DividendOnRecompute ==
  last_op.op = "recalculate_all" =>
    /\ \A i \in 1..Len(transactions) :
          transactions[i].tx_type = "dividend" =>
            transactions[i].realized_pnl = DividendAmount(transactions[i])
    /\ \A pr \in HeldPairs(transactions) :
          LET others == WithoutDividends(transactions)
              final  == Replay(ReplayStart, others,
                               SortIndices(others, TxIndices(others, pr[1], pr[2])))
          IN \A r \in PositionRows(positions, pr[1], pr[2]) :
                r.total_quantity = final.qty /\ r.avg_cost = final.avg

\* A create_transaction of a DIVIDEND stores the row with unit_price *
\* quantity - fee and leaves the positions table as it was.
DividendOnCreate ==
  (/\ Len(transactions') = Len(transactions) + 1
   /\ transactions'[Len(transactions')].tx_type = "dividend")
  => /\ transactions'[Len(transactions')].realized_pnl =
          DividendAmount(transactions'[Len(transactions')])
     /\ positions' = positions

\* C32: a DIVIDEND transaction gets realized_pnl = unit_price * quantity -
\* fee and changes neither total_quantity nor avg_cost of the position, when
\* it is created and when the position is recomputed.
C32_DividendIsPnlOnly == [](DividendOnRecompute) /\ [][DividendOnCreate]_vars

\* A recalculation ran over a log with a purchase and a dividend, and the
\* dividend is the row that was created last.
C32_Witness ==
  /\ last_op.op = "recalculate_all"
  /\ \E i \in 1..Len(transactions) : transactions[i].tx_type = "buy"
  /\ transactions[Len(transactions)].tx_type = "dividend"
  /\ \E r \in positions : r.total_quantity > 0

(***************************************************************************)
(* Recalculation of rows that were imported together                       *)
(***************************************************************************)

\* CSV files of one or two rows: purchases and a sale of one stock on one
\* day.
ImportInputs ==
  [portfolio_id : {"p1"}, symbol : {"AAPL"}, tx_type : {"buy"},
   quantity : {4, 10}, unit_price : {100}, fee : {1}, executed_at : {1}]
  \cup
  [portfolio_id : {"p1"}, symbol : {"AAPL"}, tx_type : {"sell"},
   quantity : {4}, unit_price : {120}, fee : {1}, executed_at : {1}]

ImportFiles ==
  {<<a>> : a \in ImportInputs} \cup {<<a, b>> : a \in ImportInputs, b \in ImportInputs}

ImportNext ==
  \/ \E datas \in ImportFiles : ImportCsv(datas) /\ UNCHANGED <<pmVars, jobVars>>
  \/ RecalculateAllPortfolios /\ UNCHANGED <<pmVars, jobVars>>

SpecImport == InitLedger /\ [][ImportNext]_vars

\* The rows of the table, whatever the order in which it is held.
Rows(txs) == {txs[i] : i \in 1..Len(txs)}

\* A recalculation that follows a recalculation leaves every position and
\* every realized_pnl as the first run left them.
SecondRunAgrees ==
  (last_op.op = "recalculate_all" /\ last_op'.op = "recalculate_all") =>
     /\ positions' = positions
     /\ Rows(transactions') = Rows(transactions)

\* C33: recalculate_position replays the transactions that share one
\* executed_at in the order of their insertion, so that two runs over the
\* same log give the same position and the same realized_pnl values, also
\* for a BUY and a SELL with the same executed_at.
C33_RunsAgree == [][SecondRunAgrees]_vars

\* The earlier of two dates.
Earlier(a, b) == IF a <= b THEN a ELSE b

\* C34: after update_transaction has moved a transaction from execution
\* date d_old to another date d_new, the portfolio has no snapshot dated on
\* or after the earlier of the two dates.
C34_NoSnapshotFromEarlierDate ==
  (last_op.op = "update" /\ last_op.old_date # last_op.date) =>
     \A r \in snapshots :
        r.portfolio_id = last_op.portfolio_id =>
          r.snapshot_date < Earlier(last_op.old_date, last_op.date)

\* The same statement for a transaction that is moved to an earlier date.
NoSnapshotFromEarlierDateMovingBack ==
  (last_op.op = "update" /\ last_op.date < last_op.old_date) =>
     \A r \in snapshots :
        r.portfolio_id = last_op.portfolio_id => r.snapshot_date < last_op.date

(***************************************************************************)
(* The holdings of the replay against the ledger positions                 *)
(***************************************************************************)

\* A cash account: deposits, withdrawals and interest booked as DIVIDEND,
\* executed yesterday or the day before.
HoldingsInputs ==
  [portfolio_id : {"p1"}, symbol : {"TWD"}, tx_type : {"deposit", "withdraw", "dividend"},
   quantity : {100}, unit_price : {1}, fee : {1},
   executed_at : {InstantOf(HistToday - 2), InstantOf(HistToday - 1)}]

HoldingsNext ==
  \/ \E data \in HoldingsInputs : CreateTransaction(data) /\ UNCHANGED <<pmVars, jobVars>>
  \/ \E i \in 1..MaxTx : DeleteTransaction(i) /\ UNCHANGED <<pmVars, jobVars>>
  \/ \E days \in {1, 2} :
        GetHistory("p1", days, 0, RateUnavailable) /\ UNCHANGED <<pmVars, jobVars>>

SpecHoldings == InitPrice /\ [][HoldingsNext]_vars

\* holdings[(symbol, slug)] of the replay of a history request on the day
\* current_date (0 when the replay has no entry for the symbol).
ReplayHolding(portfolio_id, symbol, days, current_date) ==
  LET idx == HistoryTxIndices(transactions, portfolio_id)
      cur == CursorOnDay(transactions, SortIndices(transactions, idx),
                         today - (days - 1), current_date)
  IN IF symbol \in DOMAIN cur.holdings THEN cur.holdings[symbol] ELSE 0

\* The quantity recalculate_position derives from the rows of the pair.
LedgerQuantity(portfolio_id, symbol) ==
  Replay(ReplayStart, transactions,
         SortIndices(transactions, TxIndices(transactions, portfolio_id, symbol))).qty

\* C35: the quantity that the replay of a history request holds for a
\* symbol on today equals the total_quantity that recalculate_position
\* derives for the pair from the same log.
C35_ReplayHoldsLedgerQuantity ==
  (last_op.op = "history" /\ last_op.mode = "replay") =>
    \A pr \in HeldPairs(transactions) :
      pr[1] = last_op.portfolio_id =>
        ReplayHolding(pr[1], pr[2], last_op.days, today) = LedgerQuantity(pr[1], pr[2])

\* The same statement for the logs that hold no DIVIDEND row.
ReplayHoldsLedgerQuantityWithoutDividends ==
  (/\ last_op.op = "history" /\ last_op.mode = "replay"
   /\ \A i \in 1..Len(transactions) : transactions[i].tx_type # "dividend") =>
    \A pr \in HeldPairs(transactions) :
      pr[1] = last_op.portfolio_id =>
        ReplayHolding(pr[1], pr[2], last_op.days, today) = LedgerQuantity(pr[1], pr[2])

\* Caller c enters get_price with force_refresh for a symbol that has a
\* provider.
ForcedStart(c) ==
  /\ pc[c] = "idle"
  /\ pc'[c] # "idle"
  /\ args'[c].force_refresh
  /\ CATEGORY_PROVIDER_MAP(args'[c].category_slug) \in Providers

\* The callers other than c whose fetch for the flight key is under way.
InFlightFor(c, flight_key) ==
  {d \in Callers \ {c} : Fetching(d) /\ FlightKeyOf(d) = flight_key}

\* C36: a get_price with force_refresh that starts while a fetch for its
\* (provider, symbol) is in flight joins that fetch and calls no provider;
\* with no fetch in flight it calls the provider, also when the fresh cache
\* holds an unexpired entry for the key.
C36_ForcedRefreshJoinsOrFetches ==
  [][\A c \in Callers :
       ForcedStart(c) =>
         LET fk     == FlightKey(CATEGORY_PROVIDER_MAP(args'[c].category_slug),
                                 args'[c].symbol)
             owners == InFlightFor(c, fk)
         IN IF owners # {}
            THEN /\ future'[c] = future[c]
                 /\ pc'[c] # "provider"
                 /\ awaited'[c] \in owners
                 /\ fetching' = fetching
            ELSE /\ pc'[c] = "provider"
                 /\ future'[c].st = "pending"
                 /\ fetching'[fk] = c]_vars

\* A forced call joined the fetch that another caller has in flight for
\* the same key and has called no provider.
C36_Witness ==
  \E c, d \in Callers :
     /\ c # d
     /\ args[c].force_refresh /\ pc[c] = "waiting" /\ awaited[c] = d
     /\ pc[d] = "provider" /\ future[d].st = "pending"
     /\ FlightKeyOf(c) = FlightKeyOf(d)
     /\ future[c].st = "none"

\* A forced call went to the provider although the fresh tier held an
\* unexpired entry for its key.
ForcedRefreshPassedFreshEntry ==
  \E c \in Callers :
     /\ args[c].force_refresh /\ pc[c] = "provider"
     /\ fresh[KeyOf(c)] # None /\ fresh[KeyOf(c)].live

\* The provider call of caller c raises in this step.
ProviderFailed(c) ==
  /\ pc[c] = "provider"
  /\ pc'[c] = "done"
  /\ price'[c] = price[c]
  /\ outcome'[c].st = "exception"

\* C37: a get_price whose provider call fails leaves both cache tiers as
\* they were: no entry is written for the key, and what cache_get_stale
\* returns for it, the entry of an earlier successful fetch included, is
\* what it returned before.
C37_FailureLeavesCache ==
  [][\A c \in Callers :
       ProviderFailed(c) =>
         /\ fresh' = fresh
         /\ stale' = stale
         /\ CacheGetStale(KeyOf(c))' = CacheGetStale(KeyOf(c))]_vars

\* A call failed at the provider while the key had the entry of an earlier
\* successful fetch, and cache_get_stale still returns that entry.
C37_Witness ==
  \E c, d \in Callers :
     /\ c # d
     /\ pc[c] = "done" /\ outcome[c].st = "exception" /\ price[c] = None
     /\ future[c].st = "exception"
     /\ pc[d] = "done" /\ outcome[d].st = "result" /\ KeyOf(d) = KeyOf(c)
     /\ stale[KeyOf(c)] # None
     /\ CacheGetStale(KeyOf(c)) = PriceToDict(outcome[d].val)

(***************************************************************************)
(* Updates that move a transaction to another symbol                       *)
(***************************************************************************)

\* Purchases and sales of two stocks of one portfolio.
SymbolInputs ==
  [portfolio_id : {"p1"}, symbol : {"AAPL", "MSFT"}, tx_type : {"buy"},
   quantity : {4, 10}, unit_price : {100}, fee : {1}, executed_at : {1}]
  \cup
  [portfolio_id : {"p1"}, symbol : {"AAPL", "MSFT"}, tx_type : {"sell"},
   quantity : {4}, unit_price : {120}, fee : {1}, executed_at : {2}]

SymbolUpdates == [symbol : {"AAPL", "MSFT"}]

SymbolNext ==
  \/ \E data \in SymbolInputs : CreateTransaction(data) /\ UNCHANGED <<pmVars, jobVars>>
  \/ \E i \in 1..MaxTx, u \in SymbolUpdates :
        UpdateTransaction(i, u) /\ UNCHANGED <<pmVars, jobVars>>

SpecSymbol == InitLedger /\ [][SymbolNext]_vars

\* The position of pair pr and the realized_pnl of its rows are those of
\* the replay of the rows the log holds for the pair; a pair without rows
\* has no position.
PairEqualsReplay(pr) ==
  LET order == SortedLog(pr)
      final == ReplayPrefix(order, Len(order))
  IN /\ PositionRows(positions, pr[1], pr[2]) =
          IF order = << >> THEN {} ELSE {RowOf(pr, final)}
     /\ \A k \in 1..Len(order) : transactions[order[k]].realized_pnl = final.pnl[order[k]]

\* C38: after update_transaction has changed the symbol of a transaction,
\* the positions of the old pair and of the new pair equal the replay of
\* the rows that remain for each, and the old pair has no position when no
\* row of it remains.
C38_BothPairsRecalculated ==
  (last_op.op = "update" /\ last_op.old_symbol # last_op.symbol) =>
     /\ PairEqualsReplay(<<last_op.portfolio_id, last_op.old_symbol>>)
     /\ PairEqualsReplay(<<last_op.portfolio_id, last_op.symbol>>)

\* The only row of a symbol was moved to a symbol that has other rows: the
\* old pair has no position left and the new pair has one.
C38_Witness ==
  /\ last_op.op = "update" /\ last_op.old_symbol # last_op.symbol
  /\ TxIndices(transactions, last_op.portfolio_id, last_op.old_symbol) = {}
  /\ PositionRows(positions, last_op.portfolio_id, last_op.old_symbol) = {}
  /\ Cardinality(TxIndices(transactions, last_op.portfolio_id, last_op.symbol)) > 1
  /\ PositionRows(positions, last_op.portfolio_id, last_op.symbol) # {}

(***************************************************************************)
(* What a mutation leaves alone                                            *)
(***************************************************************************)

\* Purchases of one stock, and purchases and sales of a second stock on the
\* last day, in the first of two portfolios.
FrameInputs ==
  [portfolio_id : {"p1"}, symbol : {"AAPL"}, tx_type : {"buy"},
   quantity : {4}, unit_price : {100}, fee : {1}, executed_at : {InstantOf(MaxDay)}]
  \cup
  [portfolio_id : {"p1"}, symbol : {"MSFT"}, tx_type : {"buy", "sell"},
   quantity : {4}, unit_price : {120}, fee : {1}, executed_at : {InstantOf(MaxDay + 1)}]

FrameUpdates == [executed_at : {InstantOf(1), InstantOf(MaxDay)}]

\* Both portfolios have a snapshot of every day up to today and no
\* transaction yet.
InitFrame ==
  /\ use_redis = FALSE
  /\ PMInit
  /\ transactions = << >>
  /\ positions = {}
  /\ today = MaxDay + 1
  /\ last_op = NoOp
  /\ JobInit
  /\ snapshots = {[portfolio_id |-> p, snapshot_date |-> d, net_worth |-> 0] :
                    p \in {"p1", "p2"}, d \in 1..(MaxDay + 1)}

FrameNext ==
  \/ \E data \in FrameInputs : CreateTransaction(data) /\ UNCHANGED <<pmVars, jobVars>>
  \/ \E i \in 1..MaxTx, u \in FrameUpdates :
        UpdateTransaction(i, u) /\ UNCHANGED <<pmVars, jobVars>>
  \/ \E i \in 1..MaxTx : DeleteTransaction(i) /\ UNCHANGED <<pmVars, jobVars>>

SpecFrame == InitFrame /\ [][FrameNext]_vars

\* The rows of a pair, in the order in which the table holds them.
RowsOfPair(txs, pr) ==
  SelectSeq(txs, LAMBDA tx : tx.portfolio_id = pr[1] /\ tx.symbol = pr[2])

\* The pairs the mutation recorded in op works on.
TouchedPairs(op) ==
  {<<op.portfolio_id, op.symbol>>} \cup
  (IF op.op = "update" THEN {<<op.portfolio_id, op.old_symbol>>} ELSE {})

\* C39: a create, update or delete of a transaction of (p, s) with
\* execution date d leaves as they were every snapshot of p dated before d,
\* every snapshot of the other portfolios, and the position and the
\* realized_pnl values of every other pair.
C39_MutationFrame ==
  [][last_op'.op \in {"create", "update", "delete"} =>
       LET op    == last_op'
           pairs == (HeldPairs(transactions) \cup HeldPairs(transactions') \cup
                     {<<r.portfolio_id, r.symbol>> : r \in positions \cup positions'})
                    \ TouchedPairs(op)
       IN /\ \A r \in snapshots :
                (r.portfolio_id # op.portfolio_id \/ r.snapshot_date < op.date)
                  => r \in snapshots'
          /\ snapshots' \subseteq snapshots
          /\ \A pr \in pairs :
                /\ PositionRows(positions', pr[1], pr[2]) =
                     PositionRows(positions, pr[1], pr[2])
                /\ [k \in 1..Len(RowsOfPair(transactions', pr)) |->
                      RowsOfPair(transactions', pr)[k].realized_pnl]
                   = [k \in 1..Len(RowsOfPair(transactions, pr)) |->
                      RowsOfPair(transactions, pr)[k].realized_pnl]]_vars

\* A mutation removed snapshots of its portfolio, kept an earlier one and
\* a snapshot of the other portfolio on its own date, while another pair
\* holds a position and a sale with a realized_pnl.
C39_Witness ==
  /\ last_op.op \in {"create", "update", "delete"}
  /\ last_op.removed > 0
  /\ \E r \in snapshots :
        r.portfolio_id = last_op.portfolio_id /\ r.snapshot_date < last_op.date
  /\ \E r \in snapshots :
        r.portfolio_id # last_op.portfolio_id /\ r.snapshot_date >= last_op.date
  /\ \E r \in positions : <<r.portfolio_id, r.symbol>> \notin TouchedPairs(last_op)
  /\ \E i \in 1..Len(transactions) :
        /\ <<transactions[i].portfolio_id, transactions[i].symbol>> \notin TouchedPairs(last_op)
        /\ transactions[i].realized_pnl # 0

====
